---- MODULE Spec2Model ----
(***************************************************************************)
(* A model of the metrics-derivation and scoring engine of the             *)
(* Fundamental-Analysis repository: safe division, the field resolver,     *)
(* the ratio calculators and the scoring engine, in both of the            *)
(* implementations the repository carries (the services/ package and the   *)
(* legacy analyzer.py / metrics.py pair).                                  *)
(*                                                                         *)
(* Python values are modelled as records [k, n, d]:                        *)
(*   k = "none"   None, or a key absent from a mapping                     *)
(*   k = "nan"    float NaN (pandas' null)                                 *)
(*   k = "num"    the finite number n/d (d > 0, lowest terms)              *)
(*   k = "inf"    float +infinity                                          *)
(*   k = "str"    a string that float() cannot parse ("N/A")               *)
(*   k = "numstr" a string that float() parses to n/d ("12")               *)
(*   k = "raise"  the call raised an exception instead of returning        *)
(* Floats are modelled by exact rationals: the comparisons the code makes  *)
(* against its thresholds are decided the same way for the values used.    *)
(***************************************************************************)
EXTENDS Integers, Sequences, FiniteSets, TLC

VARIABLES
    pc,             \* "start" before the operation under study ran, "done" after
    impl,           \* the implementation that ran ("" before)
    numerator,      \* safe division: first operand
    denominator,    \* safe division: second operand
    quotient,       \* safe division: what the call returned
    df,             \* field resolver: the statement table (a DataFrame or None)
    row_labels,     \* field resolver: the synonyms, a str or a list of str
    col_index,      \* field resolver: the period asked for (0 = most recent)
    allow_negative, \* field resolver: whether a negative value is accepted
    value,          \* field resolver: what the call returned
    metrics_dict,   \* scoring: the metrics mapping handed to the scoring step
    points,         \* scoring: points earned
    possible_points,\* scoring: points that could be earned
    scores,         \* scoring: the breakdown, name -> (rating, display value)
    overall_score,  \* scoring: the overall rating
    credit,         \* scoring: name -> (points added, possible points added)
    balance_sheet,  \* solvency: the balance sheet table
    income_stmt,    \* solvency: the income statement table
    metrics,        \* solvency: the mapping the calculator returned
    total_debt,     \* solvency: the calculator's total_debt
    ebit,           \* solvency: the calculator's ebit
    ticker,         \* analysis: the ticker analyze_stock is called with
    provider,       \* analysis: what fetch_all_data does ("raise", "none", "data")
    key_stats,      \* analysis: the key statistics mapping of the fetched data
    calculator,     \* analysis: the metrics calculator in use ("service", "raise")
    current_report, \* analysis: AnalysisService.current_report
    returned,       \* analysis: what analyze_stock returned or that it raised
    called,         \* analysis: the collaborators invoked during the run
    cash_flow,      \* trends: the cash flow statement table
    columns,        \* trends: the period labels of the statements' columns
    historical_trends, \* trends: what the trend extraction returned
    trace,          \* CLI: the inputs, prints and calls of the current iteration
    prompts,        \* CLI: the number of ticker prompts answered so far
    entered,        \* CLI: the number of non-empty, non-quit tickers entered
    analyzed,       \* CLI: the number of analyses started
    ended,          \* CLI: "running", or how the loop ended
    show_plots,     \* CLI: the normalised answer to the plot question
    export_file,    \* CLI: the normalised answer to the export question
    filename,       \* CLI: the export filename
    runs,           \* service: each analyze_stock run, its position and locals
    _raw_data,      \* service: AnalysisService._raw_data
    _historical_trends, \* service: AnalysisService._historical_trends
    last_ticker,    \* service: the ticker of the analyze_stock call begun last
    calls,          \* service: the number of analyze_stock calls begun
    export_result,  \* service: how the last export_analysis call ended
    cache,          \* provider: the lru_cache entries, most recently used first
    recent,         \* provider: the tickers requested so far, latest first
    lookup          \* provider: the last lookup and what it did

divVars == <<numerator, denominator, quotient>>
resVars == <<df, row_labels, col_index, allow_negative, value>>

scoreVars == <<metrics_dict, points, possible_points, scores, overall_score, credit>>

solvVars == <<balance_sheet, income_stmt, metrics, total_debt, ebit>>

anaVars == <<ticker, provider, key_stats, calculator, current_report, returned, called>>

trendVars == <<cash_flow, columns, historical_trends>>

cliVars == <<trace, prompts, entered, analyzed, ended, show_plots, export_file, filename>>

svcVars == <<runs, _raw_data, _historical_trends, last_ticker, calls, export_result>>

cacheVars == <<cache, recent, lookup>>

vars == <<pc, impl, divVars, resVars, scoreVars, solvVars, anaVars, trendVars, cliVars, svcVars, cacheVars>>

----------------------------------------------------------------------------
(* Values *)

Abs(i) == IF i < 0 THEN -i ELSE i

RECURSIVE Gcd(_, _)
Gcd(a, b) == IF b = 0 THEN a ELSE Gcd(b, a % b)

None == [k |-> "none", n |-> 0, d |-> 1]
NaN == [k |-> "nan", n |-> 0, d |-> 1]
Inf == [k |-> "inf", n |-> 0, d |-> 1]
Str == [k |-> "str", n |-> 0, d |-> 1]
Raise == [k |-> "raise", n |-> 0, d |-> 1]

\* The finite number a/b (b # 0), in lowest terms with a positive denominator.
Rat(a, b) ==
    LET g == Gcd(Abs(a), Abs(b))
        s == IF b < 0 THEN -1 ELSE 1
    IN  [k |-> "num", n |-> (s * a) \div g, d |-> (s * b) \div g]

Num(a) == Rat(a, 1)

NumStr(a) == [k |-> "numstr", n |-> a, d |-> 1]

IsNum(v) == v.k = "num"

\* pd.isna / pd.notna on a scalar: None and NaN are null, anything else is not.
isna(v) == v.k \in {"none", "nan"}
notna(v) == ~isna(v)

\* "no data" as the callers of a resolver or of a division see it
NoData(v) == v.k \in {"none", "nan"}

\* value is a number (finite or infinite) usable in a float comparison
IsFloat(v) == v.k \in {"num", "inf"}

RLt(x, y) == x.n * y.d < y.n * x.d
RLe(x, y) == x.n * y.d <= y.n * x.d
RAdd(x, y) == Rat(x.n * y.d + y.n * x.d, x.d * y.d)
RDivide(x, y) == Rat(x.n * y.d, x.d * y.n)
RAbs(x) == Rat(Abs(x.n), x.d)

\* Python float comparisons, +infinity included (NaN never reaches them here)
FLt(x, y) ==
    IF x.k = "inf" THEN FALSE
    ELSE IF y.k = "inf" THEN TRUE
    ELSE RLt(x, y)
FLe(x, y) ==
    IF y.k = "inf" THEN TRUE
    ELSE IF x.k = "inf" THEN FALSE
    ELSE RLe(x, y)
FGt(x, y) == FLt(y, x)
FGe(x, y) == FLe(y, x)

\* float(v): a number (NaN for NaN), or ValueError / TypeError (Raise) for a
\* string that holds no number and for None
float(v) ==
    CASE v.k = "num" -> v
      [] v.k = "inf" -> v
      [] v.k = "nan" -> v
      [] v.k = "numstr" -> Rat(v.n, v.d)
      [] OTHER -> Raise

----------------------------------------------------------------------------
(* Statement tables.  A DataFrame is [isNone, ncols, rows]: rows maps each
   label of the row index to its cells, one per period, most recent first. *)

NoTable == [isNone |-> TRUE, ncols |-> 0, rows |-> <<>>]

Table(c, r) == [isNone |-> FALSE, ncols |-> c, rows |-> r]

index(t) == DOMAIN t.rows

\* DataFrame.empty: no rows or no columns
empty(t) == t.ncols = 0 \/ index(t) = {}

\* df.loc[label].iloc[col]
iloc(t, label, col) == t.rows[label][col + 1]

StrLabel(l) == [type |-> "str", items |-> <<l>>]
ListLabels(ls) == [type |-> "list", items |-> ls]

EQ1 == "Stockholder Equity"
EQ2 == "Total Stockholder Equity"

----------------------------------------------------------------------------
(* The variables of a component while another component is under study *)

DivIdle == numerator = None /\ denominator = None /\ quotient = None

ResIdle ==
    /\ df = NoTable
    /\ row_labels = StrLabel(EQ1)
    /\ col_index = 0
    /\ allow_negative = TRUE
    /\ value = None

ScoreIdle ==
    /\ metrics_dict = <<>>
    /\ points = 0
    /\ possible_points = 0
    /\ scores = <<>>
    /\ overall_score = ""
    /\ credit = <<>>

SolvIdle ==
    /\ balance_sheet = NoTable
    /\ income_stmt = NoTable
    /\ metrics = <<>>
    /\ total_debt = None
    /\ ebit = None

NoReport == [isNone |-> TRUE]

AnaIdle ==
    /\ ticker = ""
    /\ provider = "none"
    /\ key_stats = <<>>
    /\ calculator = "service"
    /\ current_report = NoReport
    /\ returned = "pending"
    /\ called = {}

\* The columns yfinance delivers: periods as yyyymm, most recent first
LatestFirst == <<202312, 202212>>

NoTrends == [raised |-> FALSE, series |-> <<>>]

TrendIdle ==
    /\ cash_flow = NoTable
    /\ columns = LatestFirst
    /\ historical_trends = NoTrends

CliIdle ==
    /\ trace = <<>>
    /\ prompts = 0
    /\ entered = 0
    /\ analyzed = 0
    /\ ended = "running"
    /\ show_plots = <<>>
    /\ export_file = <<>>
    /\ filename = <<>>

NoLookup == [ticker |-> <<>>, rank |-> 0, cached |-> FALSE, contacted |-> FALSE,
             result |-> "", previous |-> ""]

SvcIdle ==
    /\ runs = <<>>
    /\ _raw_data = NoReport
    /\ _historical_trends = NoReport
    /\ last_ticker = ""
    /\ calls = 0
    /\ export_result = ""

CacheIdle ==
    /\ cache = <<>>
    /\ recent = <<>>
    /\ lookup = NoLookup

----------------------------------------------------------------------------
(* The field resolver: services/metrics_service.py and
   utils/calculation_helpers.py *)

\* The for loop of _get_value_from_df from label i on: the value of the first
\* label that is in the index and whose cell is null (NaN) or converts to float;
\* a cell that fails to convert makes the loop continue with the next label.
\* Mutant: a cell that fails to convert ends the search with "no data"
\* instead of falling through to the next synonym.
RECURSIVE ScanLabels_NoFallThrough(_, _, _, _)
ScanLabels_NoFallThrough(t, labels, i, col) ==
    IF i > Len(labels) THEN None
    ELSE IF labels[i] \in index(t)
         THEN LET raw_value == iloc(t, labels[i], col)
              IN  IF isna(raw_value) THEN NaN
                  ELSE IF float(raw_value) # Raise THEN float(raw_value)
                  ELSE NaN
         ELSE ScanLabels_NoFallThrough(t, labels, i + 1, col)

RECURSIVE ScanLabels(_, _, _, _)
ScanLabels(t, labels, i, col) ==
    IF i > Len(labels) THEN None
    ELSE IF labels[i] \in index(t)
         THEN LET raw_value == iloc(t, labels[i], col)
              IN  IF isna(raw_value) THEN NaN
                  ELSE IF float(raw_value) # Raise THEN float(raw_value)
                  ELSE ScanLabels(t, labels, i + 1, col)
         ELSE ScanLabels(t, labels, i + 1, col)

\* Mutant: a negative number is returned whatever allow_negative says.
_get_value_from_df_KeepNegative(t, labels, col, neg) ==
    IF t.isNone \/ empty(t) \/ col >= t.ncols THEN None
    ELSE ScanLabels(t, labels.items, 1, col)

_get_value_from_df(t, labels, col, neg) ==
    IF t.isNone \/ empty(t) \/ col >= t.ncols THEN None
    ELSE LET v == ScanLabels(t, labels.items, 1, col)
         IN  IF v.k # "none" /\ ~neg /\ IsNum(v) /\ v.n < 0 THEN NaN ELSE v

get_value_from_df(t, labels, col, neg) ==
    IF t.isNone \/ empty(t) \/ col >= t.ncols \/ col < 0 THEN None
    ELSE IF labels.type \notin {"str", "list"} THEN None
    ELSE LET v == ScanLabels(t, labels.items, 1, col)
             label_found == \E i \in 1..Len(labels.items) : labels.items[i] \in index(t)
         IN  IF label_found /\ v.k = "none" THEN NaN
             ELSE IF v.k # "none" /\ notna(v) /\ ~neg /\ v.n < 0 THEN NaN
             ELSE v

\* (latest_val + prior_val) / 2.0
Mean(x, y) == RDivide(RAdd(x, y), Num(2))

\* Mutant: a missing latest period is not replaced by the prior period.
_get_average_value_from_df_LatestOnly(t, labels, neg) ==
    LET latest_val == _get_value_from_df(t, labels, 0, neg)
    IN  IF t.isNone \/ t.ncols < 2 THEN latest_val
        ELSE LET prior_val == _get_value_from_df(t, labels, 1, neg)
             IN  IF latest_val.k = "none" \/ isna(latest_val) THEN latest_val
                 ELSE IF prior_val.k = "none" \/ isna(prior_val) THEN latest_val
                 ELSE Mean(latest_val, prior_val)

_get_average_value_from_df(t, labels, neg) ==
    LET latest_val == _get_value_from_df(t, labels, 0, neg)
    IN  IF t.isNone \/ t.ncols < 2 THEN latest_val
        ELSE LET prior_val == _get_value_from_df(t, labels, 1, neg)
             IN  IF latest_val.k = "none" \/ isna(latest_val) THEN prior_val
                 ELSE IF prior_val.k = "none" \/ isna(prior_val) THEN latest_val
                 ELSE Mean(latest_val, prior_val)

get_average_value_from_df(t, labels, neg) ==
    LET latest_val == get_value_from_df(t, labels, 0, neg)
    IN  IF t.isNone \/ t.ncols < 2 THEN latest_val
        ELSE LET prior_val == get_value_from_df(t, labels, 1, neg)
                 latest_is_num == latest_val.k # "none" /\ notna(latest_val)
                 prior_is_num == prior_val.k # "none" /\ notna(prior_val)
             IN  IF latest_is_num /\ prior_is_num THEN Mean(latest_val, prior_val)
                 ELSE IF latest_is_num THEN latest_val
                 ELSE IF prior_is_num THEN prior_val
                 ELSE IF isna(latest_val) \/ isna(prior_val) THEN NaN
                 ELSE None

MaxCell == 1

Cells == {NaN, Str, NumStr(3)} \cup {Num(1000 * i) : i \in (0 - MaxCell)..MaxCell}

ResLabels == {EQ1, EQ2}

ColCounts == {0, 1, 2}

\* every table over the labels ls with c periods
TablesOver(ls, c) == {Table(c, r) : r \in [ls -> [1..c -> Cells]]}

ResTables ==
    {NoTable} \cup UNION {TablesOver(ls, c) : ls \in SUBSET ResLabels, c \in ColCounts}

ResSynonyms ==
    {StrLabel(EQ2), ListLabels(<<EQ1, EQ2>>), ListLabels(<<EQ2, EQ1>>)}

ResInit ==
    /\ pc = "start"
    /\ impl = ""
    /\ df \in ResTables
    /\ row_labels \in ResSynonyms
    /\ col_index \in {0, 1}
    /\ allow_negative \in BOOLEAN
    /\ value = None
    /\ DivIdle
    /\ ScoreIdle
    /\ SolvIdle
    /\ AnaIdle
    /\ TrendIdle
    /\ CliIdle
    /\ SvcIdle
    /\ CacheIdle

ServiceGetValue ==
    /\ pc = "start"
    /\ pc' = "done"
    /\ impl' = "service.get"
    /\ value' = _get_value_from_df(df, row_labels, col_index, allow_negative)
    /\ UNCHANGED <<df, row_labels, col_index, allow_negative, divVars, scoreVars, solvVars, anaVars, trendVars, cliVars, svcVars, cacheVars>>

HelperGetValue ==
    /\ pc = "start"
    /\ pc' = "done"
    /\ impl' = "helpers.get"
    /\ value' = get_value_from_df(df, row_labels, col_index, allow_negative)
    /\ UNCHANGED <<df, row_labels, col_index, allow_negative, divVars, scoreVars, solvVars, anaVars, trendVars, cliVars, svcVars, cacheVars>>

\* the average takes no period argument: it always reads periods 0 and 1
ServiceGetAverage ==
    /\ pc = "start"
    /\ col_index = 0
    /\ pc' = "done"
    /\ impl' = "service.avg"
    /\ value' = _get_average_value_from_df(df, row_labels, allow_negative)
    /\ UNCHANGED <<df, row_labels, col_index, allow_negative, divVars, scoreVars, solvVars, anaVars, trendVars, cliVars, svcVars, cacheVars>>

HelperGetAverage ==
    /\ pc = "start"
    /\ col_index = 0
    /\ pc' = "done"
    /\ impl' = "helpers.avg"
    /\ value' = get_average_value_from_df(df, row_labels, allow_negative)
    /\ UNCHANGED <<df, row_labels, col_index, allow_negative, divVars, scoreVars, solvVars, anaVars, trendVars, cliVars, svcVars, cacheVars>>

ResNext == ServiceGetValue \/ HelperGetValue \/ ServiceGetAverage \/ HelperGetAverage

SpecRes == ResInit /\ [][ResNext]_vars

\* The table has the requested period and at least one row.
Usable(t, col) == ~t.isNone /\ ~empty(t) /\ col < t.ncols

\* Positions of the synonyms that are in the row index.
PresentAt(t, labels) == {i \in 1..Len(labels) : labels[i] \in index(t)}

\* Positions of the synonyms that are in the row index with a cell, at period
\* col, that is null or parses as a number.
ReadableAt(t, labels, col) ==
    {i \in PresentAt(t, labels) :
        isna(iloc(t, labels[i], col)) \/ float(iloc(t, labels[i], col)) # Raise}

Min(S) == CHOOSE x \in S : \A y \in S : x <= y

\* What the resolver owes for the located cell raw: "no data" for a null or
\* unparsable cell, the number otherwise (or "no data" for a negative number
\* when negatives are not allowed).
ResultOfCell(raw, neg, v) ==
    IF isna(raw) \/ float(raw) = Raise THEN NoData(v)
    ELSE \/ v = float(raw) /\ (neg \/ float(raw).n >= 0)
         \/ NoData(v) /\ ~neg /\ float(raw).n < 0

IsGet == pc = "done" /\ impl \in {"service.get", "helpers.get"}
IsAvg == pc = "done" /\ impl \in {"service.avg", "helpers.avg"}

(* C7 as stated: the result of the field resolver is determined by the first
   synonym, in list order, that is present in the row index: that row's value
   when it is a number, "no data" when it is null or unparsable; a later
   synonym counts only when every earlier one is absent. *)
C7_FirstPresentDecides ==
    (IsGet /\ Usable(df, col_index) /\ PresentAt(df, row_labels.items) # {}) =>
        ResultOfCell(iloc(df, row_labels.items[Min(PresentAt(df, row_labels.items))],
                          col_index),
                     allow_negative, value)

(* C7 amended: the result of the field resolver is determined by the first
   synonym, in list order, that is present in the row index and whose value at
   the requested period is null or parses as a number; a synonym that is
   present with an unparsable value is skipped like an absent one, and the
   result is "no data" when no synonym qualifies. *)
C7_FirstReadableDecides ==
    (IsGet /\ Usable(df, col_index)) =>
        IF ReadableAt(df, row_labels.items, col_index) = {}
        THEN NoData(value)
        ELSE ResultOfCell(
                 iloc(df, row_labels.items[Min(ReadableAt(df, row_labels.items, col_index))],
                      col_index),
                 allow_negative, value)

\* The first synonym is present but unparsable and the second supplies 1000.
C7_Witness ==
    /\ IsGet
    /\ row_labels = ListLabels(<<EQ1, EQ2>>)
    /\ Usable(df, col_index)
    /\ index(df) = {EQ1, EQ2}
    /\ iloc(df, EQ1, col_index) = Str
    /\ iloc(df, EQ2, col_index) = Num(1000)
    /\ value = Num(1000)

\* The resolver of the implementation that ran, at period col.
Resolve(col) ==
    IF impl = "service.avg"
    THEN _get_value_from_df(df, row_labels, col, allow_negative)
    ELSE get_value_from_df(df, row_labels, col, allow_negative)

(* C8: the average is the mean of the period-0 and period-1 values when both
   resolve to numbers, the one that resolves when exactly one does (never an
   average with zero), "no data" when neither resolves or the table is absent,
   and the period-0 result for a table with a single period. *)
C8_AverageOfResolved ==
    IsAvg =>
        LET r0 == Resolve(0)
            r1 == Resolve(1)
        IN  /\ df.isNone => NoData(value)
            /\ (~df.isNone /\ df.ncols = 1) => value = r0
            /\ (IsNum(r0) /\ IsNum(r1)) =>
                   (IsNum(value) /\ RAdd(value, value) = RAdd(r0, r1))
            /\ (IsNum(r0) /\ ~IsNum(r1)) => value = r0
            /\ (~IsNum(r0) /\ IsNum(r1)) => value = r1
            /\ (~IsNum(r0) /\ ~IsNum(r1)) => NoData(value)

\* Only the prior period resolves, and it is returned unchanged.
C8_Witness ==
    /\ IsAvg
    /\ ~df.isNone /\ df.ncols = 2
    /\ ~IsNum(Resolve(0))
    /\ Resolve(1) = Num(1000)
    /\ value = Num(1000)

----------------------------------------------------------------------------
(* Safe division: the three implementations *)

MaxOperand == 2

Operands ==
    {None, NaN, Str, NumStr(2)} \cup {Num(i) : i \in (0 - MaxOperand)..MaxOperand}

\* services/metrics_service.py
_safe_division(a, b) ==
    IF a.k = "none" \/ b.k = "none" \/ isna(a) \/ isna(b)
       \/ (IsNum(b) /\ b.n = 0)
    THEN NaN
    ELSE IF IsNum(a) /\ IsNum(b)
         THEN RDivide(a, b)
         ELSE NaN    \* TypeError caught by the except clause

\* utils/calculation_helpers.py
safe_division(a, b) ==
    IF a.k = "none" \/ b.k = "none" \/ isna(a) \/ isna(b)
    THEN NaN
    ELSE LET num == float(a)
             den == float(b)
         IN  IF num = Raise \/ den = Raise
             THEN NaN    \* ValueError/TypeError caught
             ELSE IF den.n = 0 THEN NaN ELSE RDivide(num, den)

\* metrics.py (legacy): no conversion and no except clause around the division
metrics_safe_division(a, b) ==
    IF b.k = "none" \/ isna(b) \/ (IsNum(b) /\ b.n = 0)
    THEN NaN
    ELSE IF a.k = "none" \/ isna(a)
         THEN NaN
         ELSE IF IsNum(a) /\ IsNum(b)
              THEN RDivide(a, b)
              ELSE Raise    \* str / number: TypeError leaves the function

DivInit ==
    /\ pc = "start"
    /\ impl = ""
    /\ numerator \in Operands
    /\ denominator \in Operands
    /\ quotient = None
    /\ ResIdle
    /\ ScoreIdle
    /\ SolvIdle
    /\ AnaIdle
    /\ TrendIdle
    /\ CliIdle
    /\ SvcIdle
    /\ CacheIdle

ServiceDivide ==
    /\ pc = "start"
    /\ pc' = "done"
    /\ impl' = "service"
    /\ quotient' = _safe_division(numerator, denominator)
    /\ UNCHANGED <<numerator, denominator, resVars, scoreVars, solvVars, anaVars, trendVars, cliVars, svcVars, cacheVars>>

HelperDivide ==
    /\ pc = "start"
    /\ pc' = "done"
    /\ impl' = "helpers"
    /\ quotient' = safe_division(numerator, denominator)
    /\ UNCHANGED <<numerator, denominator, resVars, scoreVars, solvVars, anaVars, trendVars, cliVars, svcVars, cacheVars>>

LegacyDivide ==
    /\ pc = "start"
    /\ pc' = "done"
    /\ impl' = "legacy"
    /\ quotient' = metrics_safe_division(numerator, denominator)
    /\ UNCHANGED <<numerator, denominator, resVars, scoreVars, solvVars, anaVars, trendVars, cliVars, svcVars, cacheVars>>

DivNext == ServiceDivide \/ HelperDivide \/ LegacyDivide

SpecDiv == DivInit /\ [][DivNext]_vars

Missing(v) == v.k \in {"none", "nan"}
NonNumeric(v) == v.k \in {"str", "numstr"}

(* C6: safe division, in all three implementations, returns "no data" whenever
   the denominator is zero or either operand is missing or non-numeric, never
   raises, and never returns infinity for finite operands. *)
C6_SafeDivisionTotal ==
    pc = "done" =>
        /\ quotient # Raise
        /\ quotient # Inf
        /\ ( \/ Missing(numerator) \/ Missing(denominator)
             \/ denominator = Num(0)
             \/ numerator.k = "str" \/ denominator.k = "str" ) => quotient = NaN

----------------------------------------------------------------------------
(* The scoring engine: AnalysisService._perform_scoring and
   StockAnalyzer.perform_scoring *)

ROE == "ROE"
NET_MARGIN == "Net Margin"
DEBT_EQUITY == "Debt/Equity"
CURRENT_RATIO == "Current Ratio"
INTEREST_COVERAGE == "Interest Coverage"
PE == "P/E"
PE_RATIO == "P/E Ratio"

\* metrics_dict.get(key): None for an absent key
Get(dict, key) == IF key \in DOMAIN dict THEN dict[key] ELSE None

\* f"{value:.2f}" (scale 100) and f"{value:.2%}" (scale 10000): the value in
\* units of 1/scale, rounded to the nearest unit; "inf" for infinity.
Rounded(v, scale) == (2 * v.n * scale + v.d) \div (2 * v.d)

Format(fmt, v) ==
    IF v.k = "inf"
    THEN [fmt |-> fmt, val |-> 0, inf |-> TRUE]
    ELSE [fmt |-> fmt, val |-> Rounded(v, IF fmt = "pct" THEN 10000 ELSE 100),
          inf |-> FALSE]

MissingText == [fmt |-> "Missing", val |-> 0, inf |-> FALSE]

\* services/analysis_service.py, lines 31-35
ROE_THRESHOLDS == [green |-> Rat(15, 100), yellow |-> Rat(5, 100)]
NET_MARGIN_THRESHOLDS == [green |-> Rat(10, 100), yellow |-> Rat(3, 100)]
DE_RATIO_THRESHOLDS == [green |-> Rat(6, 10), yellow |-> Rat(12, 10)]
CURRENT_RATIO_THRESHOLDS == [green |-> Rat(18, 10), yellow |-> Num(1)]
INTEREST_COVERAGE_THRESHOLDS == [green |-> Num(5), yellow |-> Num(2)]

\* is_percentage: the metric name contains margin, roe, roa or rate
IsPercentage(metric_name) == metric_name \in {ROE, NET_MARGIN}

\* Mutant: a ratio without data still counts towards the possible points.
rate_metric_MissingCounts(metric_name, v, thresholds, higher_is_better) ==
    LET is_valid == v.k # "none" /\ notna(v)
    IN  IF ~is_valid
        THEN [rating |-> "N/A", display |-> MissingText, points_added |-> 0,
              possible_added |-> 2]
        ELSE LET rated ==
                     IF higher_is_better
                     THEN IF FGe(v, thresholds.green) THEN <<"Green", 2>>
                          ELSE IF FGe(v, thresholds.yellow) THEN <<"Yellow", 1>>
                          ELSE <<"Red", 0>>
                     ELSE IF FLe(v, thresholds.green) THEN <<"Green", 2>>
                          ELSE IF FLe(v, thresholds.yellow) THEN <<"Yellow", 1>>
                          ELSE <<"Red", 0>>
             IN  [rating |-> rated[1],
                  display |-> Format(IF IsPercentage(metric_name) THEN "pct" ELSE "fix", v),
                  points_added |-> rated[2], possible_added |-> 2]

\* rate_metric of _perform_scoring: the breakdown entry, the points it returns
\* and what it adds to possible_points
rate_metric(metric_name, v, thresholds, higher_is_better) ==
    LET is_valid == v.k # "none" /\ notna(v)
    IN  IF ~is_valid
        THEN [rating |-> "N/A", display |-> MissingText, points_added |-> 0,
              possible_added |-> 0]
        ELSE LET display_val ==
                     Format(IF IsPercentage(metric_name) THEN "pct" ELSE "fix", v)
                 green == thresholds.green
                 yellow == thresholds.yellow
                 rated ==
                     IF higher_is_better
                     THEN IF FGe(v, green) THEN <<"Green", 2>>
                          ELSE IF FGe(v, yellow) THEN <<"Yellow", 1>>
                          ELSE <<"Red", 0>>
                     ELSE IF FLe(v, green) THEN <<"Green", 2>>
                          ELSE IF FLe(v, yellow) THEN <<"Yellow", 1>>
                          ELSE <<"Red", 0>>
             IN  [rating |-> rated[1], display |-> display_val,
                  points_added |-> rated[2], possible_added |-> 2]

\* Mutant: the 0.75 boundary is exclusive.
OverallOf_StrictGreen(pts, possible) ==
    IF possible > 0
    THEN IF 4 * pts > 3 * possible THEN "Green (Strong)"
         ELSE IF 2 * pts >= possible THEN "Yellow (Average)"
         ELSE "Red (Weak)"
    ELSE "N/A (Insufficient Data)"

\* score_percentage against 0.75 and 0.50, for possible > 0
OverallOf(pts, possible) ==
    IF possible > 0
    THEN IF 4 * pts >= 3 * possible THEN "Green (Strong)"
         ELSE IF 2 * pts >= possible THEN "Yellow (Average)"
         ELSE "Red (Weak)"
    ELSE "N/A (Insufficient Data)"

RECURSIVE SumOver(_, _, _)
SumOver(f, field, keys) ==
    IF keys = {} THEN 0
    ELSE LET x == CHOOSE y \in keys : TRUE
         IN  f[x][field] + SumOver(f, field, keys \ {x})

\* The result of a scoring run from the per-metric results rated
Compile(rated) ==
    LET pts == SumOver(rated, "points_added", DOMAIN rated)
        possible == SumOver(rated, "possible_added", DOMAIN rated)
    IN  [overall |-> OverallOf(pts, possible),
         scores |-> [m \in DOMAIN rated |->
                        [rating |-> rated[m].rating, display |-> rated[m].display]],
         points |-> pts,
         possible |-> possible,
         credit |-> [m \in DOMAIN rated |->
                        <<rated[m].points_added, rated[m].possible_added>>]]

NotScored(overall) ==
    [overall |-> overall, scores |-> <<>>, points |-> 0, possible |-> 0,
     credit |-> <<>>]

\* The rate_metric calls of _perform_scoring, lines 202-206: breakdown name ->
\* the key read, the thresholds and the direction
ServiceRules ==
       (ROE :> [key |-> ROE, thresholds |-> ROE_THRESHOLDS, higher |-> TRUE])
    @@ (NET_MARGIN :>
          [key |-> NET_MARGIN, thresholds |-> NET_MARGIN_THRESHOLDS, higher |-> TRUE])
    @@ (DEBT_EQUITY :>
          [key |-> DEBT_EQUITY, thresholds |-> DE_RATIO_THRESHOLDS, higher |-> FALSE])
    @@ (CURRENT_RATIO :>
          [key |-> CURRENT_RATIO, thresholds |-> CURRENT_RATIO_THRESHOLDS,
           higher |-> TRUE])
    @@ (INTEREST_COVERAGE :>
          [key |-> INTEREST_COVERAGE, thresholds |-> INTEREST_COVERAGE_THRESHOLDS,
           higher |-> TRUE])

_perform_scoring(dict) ==
    IF DOMAIN dict = {}
    THEN NotScored("N/A (No Metrics)")
    ELSE Compile([name \in DOMAIN ServiceRules |->
                    rate_metric(name, Get(dict, ServiceRules[name].key),
                                ServiceRules[name].thresholds,
                                ServiceRules[name].higher)])

\* The if/elif/else blocks of StockAnalyzer.perform_scoring: breakdown name ->
\* the key read, the display format, the two thresholds (thresholds.green,
\* thresholds.yellow), the direction, what the block adds to possible_points
\* (weight) and what a Yellow earns.
LegacyRules ==
       (ROE :> [key |-> ROE, fmt |-> "pct",
                thresholds |-> [green |-> Rat(15, 100), yellow |-> Rat(5, 100)],
                higher |-> TRUE, weight |-> 2, yellow_points |-> 1])
    @@ (NET_MARGIN :> [key |-> NET_MARGIN, fmt |-> "pct",
                thresholds |-> [green |-> Rat(10, 100), yellow |-> Rat(3, 100)],
                higher |-> TRUE, weight |-> 2, yellow_points |-> 1])
    @@ (DEBT_EQUITY :> [key |-> DEBT_EQUITY, fmt |-> "fix",
                thresholds |-> [green |-> Rat(5, 10), yellow |-> Num(1)],
                higher |-> FALSE, weight |-> 2, yellow_points |-> 1])
    @@ (INTEREST_COVERAGE :> [key |-> INTEREST_COVERAGE, fmt |-> "fixx",
                thresholds |-> [green |-> Num(5), yellow |-> Num(2)],
                higher |-> TRUE, weight |-> 1, yellow_points |-> 0])
    @@ (CURRENT_RATIO :> [key |-> CURRENT_RATIO, fmt |-> "fix",
                thresholds |-> [green |-> Rat(15, 10), yellow |-> Num(1)],
                higher |-> TRUE, weight |-> 1, yellow_points |-> 0])
    @@ (PE_RATIO :> [key |-> PE, fmt |-> "fix",
                thresholds |-> [green |-> Num(15), yellow |-> Num(25)],
                higher |-> FALSE, weight |-> 1, yellow_points |-> 0])

\* One block of StockAnalyzer.perform_scoring: the comparisons are strict.
legacy_rate(v, rule) ==
    IF ~notna(v)
    THEN [rating |-> "N/A", display |-> MissingText, points_added |-> 0,
          possible_added |-> 0]
    ELSE LET better(x, t) == IF rule.higher THEN FGt(x, t) ELSE FLt(x, t)
             rated ==
                 IF better(v, rule.thresholds.green) THEN <<"Green", rule.weight>>
                 ELSE IF better(v, rule.thresholds.yellow)
                      THEN <<"Yellow", rule.yellow_points>>
                 ELSE <<"Red", 0>>
         IN  [rating |-> rated[1], display |-> Format(rule.fmt, v),
              points_added |-> rated[2], possible_added |-> rule.weight]

perform_scoring(dict) ==
    IF DOMAIN dict = {}
    THEN NotScored("N/A")
    ELSE Compile([name \in DOMAIN LegacyRules |->
                    legacy_rate(Get(dict, LegacyRules[name].key), LegacyRules[name])])

\* The metrics mappings the scoring step is run on: per ratio, the key absent,
\* a null value, or a value (in hundredths) at, next to and away from the
\* thresholds, the worked examples of the specification among them.
Absent == [k |-> "absent", n |-> 0, d |-> 1]

Hundredths(S) == {Rat(i, 100) : i \in S}

RoeValues == {Absent, None, NaN} \cup Hundredths({4, 5, 10, 15, 20})
NetMarginValues == {Absent, NaN} \cup Hundredths({2, 3, 10, 12})
DebtEquityValues == {Absent, NaN} \cup Hundredths({-100, 40, 50, 60, 100, 120, 150})
CurrentRatioValues == {Absent, NaN} \cup Hundredths({90, 100, 180, 200})
InterestCoverageValues == {Absent, NaN, Inf} \cup Hundredths({100, 200, 300, 500, 800})
PeValues == {Absent} \cup Hundredths({1000, 3000})

\* the mapping holding the picked values, a key picked Absent left out
MakeDict(picks) == [key \in {x \in DOMAIN picks : picks[x] # Absent} |-> picks[key]]

MetricsDicts ==
    {MakeDict((ROE :> a) @@ (NET_MARGIN :> b) @@ (DEBT_EQUITY :> c)
              @@ (CURRENT_RATIO :> e) @@ (INTEREST_COVERAGE :> f) @@ (PE :> g)) :
        a \in RoeValues, b \in NetMarginValues, c \in DebtEquityValues,
        e \in CurrentRatioValues, f \in InterestCoverageValues, g \in PeValues}

ScoreInit ==
    /\ pc = "start"
    /\ impl = ""
    /\ metrics_dict \in MetricsDicts
    /\ points = 0
    /\ possible_points = 0
    /\ scores = <<>>
    /\ overall_score = ""
    /\ credit = <<>>
    /\ DivIdle
    /\ ResIdle
    /\ SolvIdle
    /\ AnaIdle
    /\ TrendIdle
    /\ CliIdle
    /\ SvcIdle
    /\ CacheIdle

Scored(result) ==
    /\ pc' = "done"
    /\ overall_score' = result.overall
    /\ scores' = result.scores
    /\ points' = result.points
    /\ possible_points' = result.possible
    /\ credit' = result.credit
    /\ UNCHANGED <<metrics_dict, divVars, resVars, solvVars, anaVars, trendVars, cliVars, svcVars, cacheVars>>

ServiceScore ==
    /\ pc = "start"
    /\ impl' = "service"
    /\ Scored(_perform_scoring(metrics_dict))

LegacyScore ==
    /\ pc = "start"
    /\ impl' = "legacy"
    /\ Scored(perform_scoring(metrics_dict))

ScoreNext == ServiceScore \/ LegacyScore

SpecScore == ScoreInit /\ [][ScoreNext]_vars

\* The scoring step ran, under either implementation.
ScoringRan == pc = "done" /\ impl \in {"service", "legacy"}

\* The rules of the implementation that ran: breakdown name -> rule
Rules == IF impl = "service" THEN ServiceRules ELSE LegacyRules

\* The value the scoring step read for the breakdown entry name
Read(name) == Get(metrics_dict, Rules[name].key)

HasData(v) == v.k \notin {"none", "nan"}

\* The breakdown names whose ratio has data
WithData == {name \in DOMAIN Rules : HasData(Read(name))}

Entry(name, rating) == name \in DOMAIN scores /\ scores[name].rating = rating

Credit(name, earned, possible) ==
    name \in DOMAIN credit /\ credit[name] = <<earned, possible>>

(* C1: in both scoring implementations the boundaries are inclusive on the
   favourable side: a value equal to the Green threshold is rated Green, a
   value equal to the Yellow threshold is rated Yellow; ROE 0.15 is Green with
   2 points, ROE 0.05 Yellow with 1 point, ROE 0.04 Red with 0 points. *)
C1_InclusiveBoundaries ==
    (ScoringRan /\ DOMAIN metrics_dict # {}) =>
        /\ \A name \in WithData :
              /\ Read(name) = Rules[name].thresholds.green => Entry(name, "Green")
              /\ Read(name) = Rules[name].thresholds.yellow => Entry(name, "Yellow")
        /\ Read(ROE) = Rat(15, 100) => Entry(ROE, "Green") /\ Credit(ROE, 2, 2)
        /\ Read(ROE) = Rat(5, 100) => Entry(ROE, "Yellow") /\ Credit(ROE, 1, 2)
        /\ Read(ROE) = Rat(4, 100) => Entry(ROE, "Red") /\ Credit(ROE, 0, 2)

FiveRatios == {ROE, NET_MARGIN, DEBT_EQUITY, CURRENT_RATIO, INTEREST_COVERAGE}

AllFiveGreenExample ==
    /\ Get(metrics_dict, ROE) = Rat(20, 100)
    /\ Get(metrics_dict, NET_MARGIN) = Rat(12, 100)
    /\ Get(metrics_dict, DEBT_EQUITY) = Rat(4, 10)
    /\ Get(metrics_dict, CURRENT_RATIO) = Num(2)
    /\ Get(metrics_dict, INTEREST_COVERAGE) = Num(8)

(* C2: with ROE, Net Margin, Debt/Equity, Current Ratio and Interest Coverage
   all available the possible points of AnalysisService._perform_scoring total
   9, and at ROE 0.20, Net Margin 0.12, Debt/Equity 0.4, Current Ratio 2.0 and
   Interest Coverage 8 the earned points are 9 and the rating is
   "Green (Strong)". *)
C2_NineOfNine ==
    (pc = "done" /\ impl = "service") =>
        /\ (\A name \in FiveRatios : HasData(Get(metrics_dict, name))) =>
               possible_points = 9
        /\ AllFiveGreenExample =>
               (points = 9 /\ overall_score = "Green (Strong)")

\* The overall rating as a function of points / possible_points
RatingOfShare ==
    IF possible_points = 0 THEN overall_score = "N/A (Insufficient Data)"
    ELSE IF 4 * points >= 3 * possible_points THEN overall_score = "Green (Strong)"
    ELSE IF 2 * points >= possible_points THEN overall_score = "Yellow (Average)"
    ELSE overall_score = "Red (Weak)"

(* C3 as stated: for every metrics mapping the overall rating is a function of
   points / possible_points only (>= 0.75 Green, >= 0.50 Yellow, lower Red),
   and whenever no scored ratio has data it is "N/A (Insufficient Data)". *)
C3_RatingForEveryMapping ==
    ScoringRan =>
        /\ WithData = {} => overall_score = "N/A (Insufficient Data)"
        /\ WithData # {} => (possible_points > 0 /\ RatingOfShare)

(* C3 amended: for every non-empty metrics mapping the overall rating is a
   function of points / possible_points only (>= 0.75 Green, >= 0.50 Yellow,
   lower Red) and is "N/A (Insufficient Data)" when no scored ratio has data;
   for the empty mapping the scoring step rates nothing and returns
   "N/A (No Metrics)" (AnalysisService) or "N/A" (StockAnalyzer). *)
C3_RatingForNonEmptyMapping ==
    ScoringRan =>
        IF DOMAIN metrics_dict = {}
        THEN overall_score = (IF impl = "service" THEN "N/A (No Metrics)" ELSE "N/A")
        ELSE /\ WithData = {} => overall_score = "N/A (Insufficient Data)"
             /\ WithData # {} => (possible_points > 0 /\ RatingOfShare)
             /\ possible_points = 0 <=> WithData = {}

\* A mapping that has keys but no data for any scored ratio.
C3_Witness ==
    /\ ScoringRan
    /\ DOMAIN metrics_dict # {}
    /\ WithData = {}
    /\ overall_score = "N/A (Insufficient Data)"

\* What a ratio with data adds to the possible points
Weight(name) ==
    IF impl = "service" THEN 2
    ELSE IF name \in {ROE, NET_MARGIN, DEBT_EQUITY} THEN 2 ELSE 1

RECURSIVE SumWeights(_)
SumWeights(names) ==
    IF names = {} THEN 0
    ELSE LET x == CHOOSE y \in names : TRUE
         IN  Weight(x) + SumWeights(names \ {x})

MissingEntry(name) ==
    /\ name \in DOMAIN scores
    /\ scores[name] = [rating |-> "N/A", display |-> MissingText]
    /\ Credit(name, 0, 0)

(* C4 as stated: a scored ratio whose value is absent from the mapping, None
   or NaN gets the rating N/A with display "Missing" and adds 0 to the earned
   and 0 to the possible points; the possible points are the sum of the
   weights of exactly the scored ratios that have data. *)
C4_MissingRatedNA ==
    ScoringRan =>
        /\ \A name \in DOMAIN Rules \ WithData : MissingEntry(name)
        /\ possible_points = SumWeights(WithData)

(* C4 amended: whenever the metrics mapping is not empty, a scored ratio whose
   value is absent from the mapping, None or NaN gets the rating N/A with
   display "Missing" and adds 0 to the earned and 0 to the possible points, and
   the possible points are the sum of the weights of exactly the scored ratios
   that have data; for the empty mapping the breakdown is empty and no points
   are counted. *)
C4_MissingRatedNAWhenScored ==
    ScoringRan =>
        IF DOMAIN metrics_dict = {}
        THEN scores = <<>> /\ points = 0 /\ possible_points = 0
        ELSE /\ \A name \in DOMAIN Rules \ WithData : MissingEntry(name)
             /\ possible_points = SumWeights(WithData)

\* ROE is missing while another scored ratio has data.
C4_Witness ==
    /\ ScoringRan
    /\ ~HasData(Read(ROE))
    /\ HasData(Read(NET_MARGIN))
    /\ MissingEntry(ROE)
    /\ possible_points > 0

(* C5: Interest Coverage is worth at most 1 point and only Green scores: a
   value >= 5.0 earns 1 of 1 possible point, a Yellow value (>= 2.0 and < 5.0)
   earns 0 of 1, a Red value earns 0 of 1. *)
C5_InterestCoverageOnePoint ==
    (ScoringRan /\ DOMAIN metrics_dict # {} /\ HasData(Read(INTEREST_COVERAGE))) =>
        IF FGe(Read(INTEREST_COVERAGE), Num(5))
        THEN Credit(INTEREST_COVERAGE, 1, 1)
        ELSE Credit(INTEREST_COVERAGE, 0, 1)

----------------------------------------------------------------------------
(* The solvency calculators: MetricsService._calculate_solvency and
   metrics.calculate_solvency_metrics.  The statements hold numbers and nulls
   here; cells of other types are the field resolver's subject above. *)

TOTAL_DEBT == "Total Debt"
LONG_TERM_DEBT == "Long Term Debt"
CURRENT_DEBT == "Current Debt"
SHORT_TERM_DEBT == "Short Term Debt"
INTEREST_EXPENSE == "Interest Expense"
EBIT == "EBIT"
NET_INCOME == "Net Income"
TAX_PROVISION == "Tax Provision"
INCOME_TAX_EXPENSE == "Income Tax Expense"

EquityLabels == ListLabels(<<EQ1, EQ2, "Total Equity Gross Minority Interest">>)

\* value if it is a number, else 0.0
OrZero(v) == IF v.k # "none" /\ notna(v) THEN v ELSE Num(0)

Valid(v) == v.k # "none" /\ notna(v)

_calculate_solvency(is, bs) ==
    LET td0 == _get_value_from_df(bs, ListLabels(<<TOTAL_DEBT>>), 0, FALSE)
        long_term_debt ==
            _get_value_from_df(bs,
                ListLabels(<<LONG_TERM_DEBT, "Long Term Debt Noncurrent">>), 0, FALSE)
        short_term_debt ==
            _get_value_from_df(bs,
                ListLabels(<<CURRENT_DEBT, SHORT_TERM_DEBT,
                             "Current Debt And Capital Lease Obligation",
                             "Short Term Borrowings">>), 0, FALSE)
        ltd == OrZero(long_term_debt)
        std == OrZero(short_term_debt)
        td == IF td0.k = "none" \/ isna(td0)
              THEN IF ltd.n > 0 \/ std.n > 0 THEN RAdd(ltd, std) ELSE NaN
              ELSE td0
        total_equity == _get_value_from_df(bs, EquityLabels, 0, TRUE)
        interest_expense ==
            _get_value_from_df(is,
                ListLabels(<<INTEREST_EXPENSE, "Interest Expense Net">>), 0, TRUE)
        ebit0 == _get_value_from_df(is,
                     ListLabels(<<EBIT, "Earnings Before Interest And Taxes">>), 0, TRUE)
        net_income ==
            _get_value_from_df(is, ListLabels(<<NET_INCOME, "NetIncome">>), 0, TRUE)
        tax_provision ==
            _get_value_from_df(is,
                ListLabels(<<TAX_PROVISION, "Income Tax Expense Benefit",
                             INCOME_TAX_EXPENSE>>), 0, TRUE)
        eb == IF ebit0.k = "none" \/ isna(ebit0)
              THEN IF Valid(net_income) /\ Valid(interest_expense) /\ Valid(tax_provision)
                   THEN RAdd(RAdd(net_income, tax_provision), RAbs(interest_expense))
                   ELSE NaN
              ELSE ebit0
        abs_interest_expense ==
            IF Valid(interest_expense) THEN RAbs(interest_expense) ELSE None
        coverage ==
            IF notna(eb) /\ eb.n > 0 /\ abs_interest_expense = Num(0)
            THEN Inf
            ELSE _safe_division(eb, abs_interest_expense)
    IN  [metrics |-> (DEBT_EQUITY :> _safe_division(td, total_equity))
                     @@ (INTEREST_COVERAGE :> coverage),
         total_debt |-> td,
         ebit |-> eb]

\* metrics.get_metric on the latest period of a statement
get_metric(t, metric_name, default) ==
    IF metric_name \notin index(t) THEN default
    ELSE IF notna(iloc(t, metric_name, 0)) THEN iloc(t, metric_name, 0)
    ELSE default

\* the dict comprehension that drops the NaN results
DropNaN(dict) == [key \in {x \in DOMAIN dict : notna(dict[x])} |-> dict[key]]

calculate_solvency_metrics(bs, is) ==
    IF bs.isNone \/ empty(bs) \/ is.isNone \/ empty(is)
    THEN [metrics |-> <<>>, total_debt |-> None, ebit |-> None]
    ELSE
    LET td0 == get_metric(bs, TOTAL_DEBT, NaN)
        long_term_debt == get_metric(bs, LONG_TERM_DEBT, Num(0))
        std0 == get_metric(bs, CURRENT_DEBT, Num(0))
        short_term_debt ==
            IF isna(std0) THEN get_metric(bs, SHORT_TERM_DEBT, Num(0)) ELSE std0
        td == IF isna(td0)
              THEN IF notna(long_term_debt) \/ notna(short_term_debt)
                   THEN RAdd(OrZero(long_term_debt), OrZero(short_term_debt))
                   ELSE td0
              ELSE td0
        te0 == get_metric(bs, EQ1, NaN)
        total_equity == IF isna(te0) THEN get_metric(bs, EQ2, NaN) ELSE te0
        ebit0 == get_metric(is, EBIT, NaN)
        net_income == get_metric(is, NET_INCOME, Num(0))
        ie0 == get_metric(is, INTEREST_EXPENSE, Num(0))
        tax0 == get_metric(is, TAX_PROVISION, Num(0))
        tax_expense ==
            IF isna(tax0) THEN get_metric(is, INCOME_TAX_EXPENSE, Num(0)) ELSE tax0
        eb == IF isna(ebit0)
              THEN IF notna(net_income) /\ notna(ie0) /\ notna(tax_expense)
                   THEN RAdd(RAdd(net_income, ie0), tax_expense)
                   ELSE ebit0
              ELSE ebit0
        interest_expense == get_metric(is, INTEREST_EXPENSE, NaN)
        coverage ==
            IF notna(interest_expense) /\ interest_expense.n # 0
            THEN metrics_safe_division(eb, RAbs(interest_expense))
            ELSE IF IsNum(eb) /\ eb.n > 0 THEN Inf ELSE NaN
    IN  [metrics |-> DropNaN((DEBT_EQUITY :> metrics_safe_division(td, total_equity))
                             @@ (INTEREST_COVERAGE :> coverage)),
         total_debt |-> td,
         ebit |-> eb]

\* The statements of the companies analysed: per line item, the row absent
\* (Absent), null, or a number; one period.
RowChoices(S) == {Absent, NaN} \cup {Num(i) : i \in S}

OneColumn(picks) ==
    Table(1, [l \in {x \in DOMAIN picks : picks[x] # Absent} |-> <<picks[l]>>])

BalanceSheets ==
    {NoTable} \cup
    {OneColumn((TOTAL_DEBT :> a) @@ (LONG_TERM_DEBT :> b) @@ (CURRENT_DEBT :> c)
               @@ (EQ1 :> e)) :
        a \in RowChoices({0, 50}), b \in RowChoices({0, 30}),
        c \in {Absent} \cup {Num(0), Num(20)},
        e \in {Absent} \cup {Num(0), Num(100), Num(-100)}}

IncomeStatements ==
    {NoTable} \cup
    {OneColumn((INTEREST_EXPENSE :> a) @@ (EBIT :> b) @@ (NET_INCOME :> c)
               @@ (TAX_PROVISION :> e)) :
        a \in RowChoices({0, 10, -10}),
        b \in {Absent} \cup {Num(0), Num(100), Num(-100)},
        c \in {Absent, Num(50)}, e \in {Absent, Num(10)}}

SolvInit ==
    /\ pc = "start"
    /\ impl = ""
    /\ balance_sheet \in BalanceSheets
    /\ income_stmt \in IncomeStatements
    /\ metrics = <<>>
    /\ total_debt = None
    /\ ebit = None
    /\ DivIdle
    /\ ResIdle
    /\ ScoreIdle
    /\ AnaIdle
    /\ TrendIdle
    /\ CliIdle
    /\ SvcIdle
    /\ CacheIdle

Calculated(result) ==
    /\ pc' = "done"
    /\ metrics' = result.metrics
    /\ total_debt' = result.total_debt
    /\ ebit' = result.ebit
    /\ UNCHANGED <<balance_sheet, income_stmt, divVars, resVars, scoreVars, anaVars, trendVars, cliVars, svcVars, cacheVars>>

ServiceSolvency ==
    /\ pc = "start"
    /\ impl' = "service"
    /\ Calculated(_calculate_solvency(income_stmt, balance_sheet))

LegacySolvency ==
    /\ pc = "start"
    /\ impl' = "legacy"
    /\ Calculated(calculate_solvency_metrics(balance_sheet, income_stmt))

SolvNext == ServiceSolvency \/ LegacySolvency

SpecSolv == SolvInit /\ [][SolvNext]_vars

SolvencyRan == pc = "done" /\ impl \in {"service", "legacy"}

\* The cell of a line item in the latest period: None for an absent row or table
Latest(t, label) ==
    IF t.isNone \/ t.ncols = 0 \/ label \notin index(t) THEN None
    ELSE iloc(t, label, 0)

\* Both statements have a row and a period; the legacy calculator computes
\* nothing otherwise.
BothStatements == Usable(balance_sheet, 0) /\ Usable(income_stmt, 0)

NoDebtRows ==
    /\ NoData(Latest(balance_sheet, TOTAL_DEBT))
    /\ NoData(Latest(balance_sheet, LONG_TERM_DEBT))
    /\ NoData(Latest(balance_sheet, CURRENT_DEBT))
    /\ NoData(Latest(balance_sheet, SHORT_TERM_DEBT))

(* C9: when Total Debt, Long-Term Debt and Short-Term Debt are all absent from
   the latest balance-sheet period, Total Debt is "no data" and Debt/Equity is
   "no data", never 0, in both solvency calculators. *)
C9_NoDebtRowsNoDebtEquity ==
    (SolvencyRan /\ NoDebtRows) =>
        /\ NoData(total_debt)
        /\ NoData(Get(metrics, DEBT_EQUITY))

(* C10: Interest Coverage is infinite exactly when EBIT is a positive number
   and interest expense resolves to exactly zero; it is "no data" when interest
   expense is missing, or is zero with EBIT not positive; otherwise it is
   EBIT / |InterestExpense|, in both solvency calculators. *)
C10_InterestCoverageRule ==
    (SolvencyRan /\ BothStatements) =>
        LET ie == Latest(income_stmt, INTEREST_EXPENSE)
            ic == Get(metrics, INTEREST_COVERAGE)
        IN  IF NoData(ie) THEN NoData(ic)
            ELSE IF ie.n = 0
                 THEN IF IsNum(ebit) /\ ebit.n > 0 THEN ic = Inf ELSE NoData(ic)
                 ELSE IF IsNum(ebit) THEN ic = RDivide(ebit, RAbs(ie))
                 ELSE NoData(ic)

----------------------------------------------------------------------------
(* The liquidity calculators: MetricsService._calculate_liquidity and
   metrics.calculate_liquidity_metrics *)

CURRENT_ASSETS == "Current Assets"
TOTAL_CURRENT_ASSETS == "Total Current Assets"
CURRENT_LIABILITIES == "Current Liabilities"
TOTAL_CURRENT_LIABILITIES == "Total Current Liabilities"
INVENTORY == "Inventory"
INVENTORIES == "Inventories"
QUICK_RATIO == "Quick Ratio"

RSub(x, y) == RAdd(x, Rat(0 - y.n, y.d))

_calculate_liquidity(bs) ==
    LET current_assets ==
            _get_value_from_df(bs,
                ListLabels(<<CURRENT_ASSETS, TOTAL_CURRENT_ASSETS>>), 0, FALSE)
        current_liabilities ==
            _get_value_from_df(bs,
                ListLabels(<<CURRENT_LIABILITIES, TOTAL_CURRENT_LIABILITIES>>), 0, FALSE)
        inventory ==
            OrZero(_get_value_from_df(bs, ListLabels(<<INVENTORY, INVENTORIES>>), 0, FALSE))
        quick_assets ==
            IF Valid(current_assets) THEN RSub(current_assets, inventory) ELSE None
    IN  (CURRENT_RATIO :> _safe_division(current_assets, current_liabilities))
        @@ (QUICK_RATIO :> _safe_division(quick_assets, current_liabilities))

calculate_liquidity_metrics(bs) ==
    IF bs.isNone \/ empty(bs) THEN <<>>
    ELSE
    LET ca0 == get_metric(bs, CURRENT_ASSETS, NaN)
        current_assets ==
            IF isna(ca0) THEN get_metric(bs, TOTAL_CURRENT_ASSETS, NaN) ELSE ca0
        cl0 == get_metric(bs, CURRENT_LIABILITIES, NaN)
        current_liabilities ==
            IF isna(cl0) THEN get_metric(bs, TOTAL_CURRENT_LIABILITIES, NaN) ELSE cl0
        inventory == get_metric(bs, INVENTORY, Num(0))
        quick_assets ==
            IF notna(current_assets) THEN RSub(current_assets, inventory) ELSE NaN
    IN  DropNaN((CURRENT_RATIO :> metrics_safe_division(current_assets, current_liabilities))
                @@ (QUICK_RATIO :> metrics_safe_division(quick_assets, current_liabilities)))

\* The balance sheets the liquidity calculators are run on
LiquiditySheets ==
    {NoTable} \cup
    {OneColumn((CURRENT_ASSETS :> a) @@ (TOTAL_CURRENT_ASSETS :> b)
               @@ (CURRENT_LIABILITIES :> c) @@ (INVENTORY :> e) @@ (INVENTORIES :> f)) :
        a \in RowChoices({0, 150, -150}), b \in {Absent, Num(120)},
        c \in RowChoices({0, 100, -100}), e \in RowChoices({0, 50, -10}),
        f \in {Absent, Num(30)}}

LiqInit ==
    /\ pc = "start"
    /\ impl = ""
    /\ balance_sheet \in LiquiditySheets
    /\ income_stmt = NoTable
    /\ metrics = <<>>
    /\ total_debt = None
    /\ ebit = None
    /\ DivIdle
    /\ ResIdle
    /\ ScoreIdle
    /\ AnaIdle
    /\ TrendIdle
    /\ CliIdle
    /\ SvcIdle
    /\ CacheIdle

ServiceLiquidity ==
    /\ pc = "start"
    /\ pc' = "done"
    /\ impl' = "service"
    /\ metrics' = _calculate_liquidity(balance_sheet)
    /\ UNCHANGED <<balance_sheet, income_stmt, total_debt, ebit,
                   divVars, resVars, scoreVars, anaVars, trendVars, cliVars, svcVars, cacheVars>>

LegacyLiquidity ==
    /\ pc = "start"
    /\ pc' = "done"
    /\ impl' = "legacy"
    /\ metrics' = calculate_liquidity_metrics(balance_sheet)
    /\ UNCHANGED <<balance_sheet, income_stmt, total_debt, ebit,
                   divVars, resVars, scoreVars, anaVars, trendVars, cliVars, svcVars, cacheVars>>

LiqNext == ServiceLiquidity \/ LegacyLiquidity

SpecLiq == LiqInit /\ [][LiqNext]_vars

\* A line item as the specification resolves it with negatives not allowed:
\* the first of the two labels whose row is present decides; an absent row, a
\* null and a negative value are "no data".
NonNegative(t, first, second) ==
    LET cell == IF first \in index(t) THEN Latest(t, first) ELSE Latest(t, second)
    IN  IF IsNum(cell) /\ cell.n >= 0 THEN cell ELSE NaN

(* C11: in the liquidity calculators, when no Inventory row resolves to a
   number (row absent, value null, or value rejected as negative) the
   inventory is taken as exactly 0, so Quick Ratio = CurrentAssets /
   CurrentLiabilities; Quick Ratio is "no data" only when CurrentAssets or
   CurrentLiabilities is "no data" or CurrentLiabilities is 0. *)
C11_MissingInventoryIsZero ==
    (SolvencyRan /\ Usable(balance_sheet, 0)) =>
        LET ca == NonNegative(balance_sheet, CURRENT_ASSETS, TOTAL_CURRENT_ASSETS)
            cl == NonNegative(balance_sheet, CURRENT_LIABILITIES, TOTAL_CURRENT_LIABILITIES)
            inv == NonNegative(balance_sheet, INVENTORY, INVENTORIES)
            qr == Get(metrics, QUICK_RATIO)
        IN  /\ (NoData(inv) /\ IsNum(ca) /\ IsNum(cl) /\ cl.n # 0) =>
                   qr = RDivide(ca, cl)
            /\ NoData(qr) => (NoData(ca) \/ NoData(cl) \/ cl.n = 0)

----------------------------------------------------------------------------
(* The analysis pipeline: MetricsService.calculate_all_current_metrics and
   AnalysisService.analyze_stock *)

ROA == "ROA"
GROSS_MARGIN == "Gross Margin"
ASSET_TURNOVER == "Asset Turnover"
INVENTORY_TURNOVER == "Inventory Turnover"
FORWARD_PE == "Forward P/E"
PB == "P/B"
PEG == "PEG"
PB_CALCULATED == "P/B (Calculated)"
TOTAL_REVENUE == "Total Revenue"
TOTAL_ASSETS == "Total Assets"
COST_OF_REVENUE == "Cost Of Revenue"

RevenueLabels == ListLabels(<<TOTAL_REVENUE, "Revenue", "Total Sales">>)
AssetLabels == ListLabels(<<TOTAL_ASSETS, "TotalAssets">>)

_calculate_profitability(is, bs) ==
    LET net_income ==
            _get_value_from_df(is, ListLabels(<<NET_INCOME, "NetIncome">>), 0, TRUE)
        total_revenue == _get_value_from_df(is, RevenueLabels, 0, FALSE)
        gross_profit ==
            _get_value_from_df(is, ListLabels(<<"Gross Profit", "GrossProfit">>), 0, TRUE)
        avg_equity == _get_average_value_from_df(bs, EquityLabels, TRUE)
        avg_assets == _get_average_value_from_df(bs, AssetLabels, FALSE)
    IN  (ROE :> _safe_division(net_income, avg_equity))
        @@ (ROA :> _safe_division(net_income, avg_assets))
        @@ (GROSS_MARGIN :> _safe_division(gross_profit, total_revenue))
        @@ (NET_MARGIN :> _safe_division(net_income, total_revenue))

_calculate_efficiency(is, bs) ==
    LET total_revenue == _get_value_from_df(is, RevenueLabels, 0, FALSE)
        cogs ==
            _get_value_from_df(is,
                ListLabels(<<COST_OF_REVENUE, "Cost of Goods Sold",
                             "Cost Of Goods And Services Sold">>), 0, FALSE)
        avg_assets == _get_average_value_from_df(bs, AssetLabels, FALSE)
        avg_inventory ==
            _get_average_value_from_df(bs, ListLabels(<<INVENTORY, INVENTORIES>>), FALSE)
    IN  (ASSET_TURNOVER :> _safe_division(total_revenue, avg_assets))
        @@ (INVENTORY_TURNOVER :> _safe_division(cogs, avg_inventory))

\* The outcome of a call that may raise: the mapping it returned, or raised
Returned(m) == [raised |-> FALSE, metrics |-> m]
Raised == [raised |-> TRUE, metrics |-> <<>>]

\* The final loop of _calculate_valuation: None becomes NaN, a value float()
\* accepts becomes that float, a value it rejects becomes NaN
AsFloat(v) ==
    IF v.k = "none" THEN NaN
    ELSE IF notna(v) THEN (IF float(v) = Raise THEN NaN ELSE float(v))
    ELSE v

\* ks is the key statistics mapping (analyze_stock never passes None)
_calculate_valuation(ks, bs) ==
    LET direct == (PE :> Get(ks, "trailingPE")) @@ (FORWARD_PE :> Get(ks, "forwardPE"))
                  @@ (PB :> Get(ks, "priceToBook")) @@ (PEG :> Get(ks, "pegRatio"))
        market_cap == Get(ks, "marketCap")
        total_equity == _get_value_from_df(bs, EquityLabels, 0, TRUE)
        fallback == /\ isna(direct[PB])
                    /\ market_cap.k # "none"
                    /\ total_equity.k # "none"
                    /\ ~(IsNum(total_equity) /\ total_equity.n = 0)
        calculated == _safe_division(float(market_cap), total_equity)
        all == IF fallback
               THEN (PB :> calculated) @@ (PB_CALCULATED :> calculated) @@ direct
               ELSE direct
    IN  IF fallback /\ float(market_cap) = Raise
        THEN Raised    \* float(market_cap) is outside every try block
        ELSE Returned([k \in DOMAIN all |-> AsFloat(all[k])])

calculate_all_current_metrics(is, bs, ks) ==
    LET valuation == _calculate_valuation(ks, bs)
    IN  IF valuation.raised THEN Raised
        ELSE Returned(_calculate_profitability(is, bs) @@ valuation.metrics
                      @@ _calculate_liquidity(bs) @@ _calculate_efficiency(is, bs)
                      @@ _calculate_solvency(is, bs).metrics)

\* str.upper on the tickers used here
Upper(t) == IF t = "aapl" THEN "AAPL" ELSE t

\* AnalysisReport(...): the dataclass with its defaults; error_message "" stands
\* for None.  __post_init__ raises ValueError for an empty ticker.
AnalysisReport(tk, overall, breakdown, current, error) ==
    [isNone |-> FALSE, ticker |-> Upper(tk), overall_score |-> overall,
     score_breakdown |-> breakdown, current_metrics |-> current,
     error_message |-> error]

PostInitRaises(tk) == tk = ""

FETCH_ERROR == "Failed to fetch essential data"
UNEXPECTED_ERROR == "An unexpected error occurred during analysis"

\* Mutant: only a null result counts as a failed fetch.
FetchFailed_NullOnly(p, ks) == p = "none"

\* not raw_data or not raw_data.get('key_stats')
FetchFailed(p, ks) == p = "none" \/ DOMAIN ks = {}

(* Historical trend extraction: AnalysisService._extract_historical_trends,
   the legacy FundamentalAnalyzer._extract_historical_trends and the series of
   libs/FundamentalAnalyszer.py compute_metrics.  A pandas Series is a
   sequence of [index, value]; a period label is a date, written yyyymm. *)

GROSS_PROFIT == "Gross Profit"
OPERATING_CASH_FLOW == "Operating Cash Flow"
TOTAL_CASH_FROM_OPERATING_ACTIVITIES == "Total Cash From Operating Activities"
FREE_CASH_FLOW == "Free Cash Flow"

\* df.loc[label] of a table whose columns carry the labels cols
loc(t, label, cols) ==
    [i \in 1..t.ncols |-> [index |-> cols[i], value |-> t.rows[label][i]]]

\* Mutant: the row is handed over in the order of the source columns.
sort_index_SourceOrder(series) == series

\* Series.sort_index(): the entries by ascending index label (the labels of a
\* statement's columns are distinct)
sort_index(series) ==
    [k \in 1..Len(series) |->
        series[CHOOSE i \in 1..Len(series) :
                  Cardinality({j \in 1..Len(series) :
                                  series[j].index < series[i].index}) = k - 1]]

\* series.index = series.index.year
YearIndex(series) ==
    [i \in 1..Len(series) |->
        [index |-> series[i].index \div 100, value |-> series[i].value]]

\* next((label for label in labels if label in t.index), None); "" is None
RECURSIVE FirstLabelFrom(_, _, _)
FirstLabelFrom(labels, t, i) ==
    IF i > Len(labels) THEN ""
    ELSE IF labels[i] \in index(t) THEN labels[i]
    ELSE FirstLabelFrom(labels, t, i + 1)

Filled(t) == ~t.isNone /\ ~empty(t)

Pick(name, t, label) == [name |-> name, t |-> t, label |-> label]

\* The dict built from the picks whose statement is usable and holds the label
SeriesOf(picks, cols, yearly) ==
    LET present == {p \in picks : Filled(p.t) /\ p.label \in index(p.t)}
    IN  [n \in {p.name : p \in present} |->
            LET p == CHOOSE q \in present : q.name = n
                sorted == sort_index(loc(p.t, p.label, cols))
            IN  IF yearly THEN YearIndex(sorted) ELSE sorted]

TrendsReturned(series) == [raised |-> FALSE, series |-> series]
TrendsRaised == [raised |-> TRUE, series |-> <<>>]

\* services/analysis_service.py: every lookup is guarded by a membership test
_extract_historical_trends(is, bs, cf, cols) ==
    TrendsReturned(SeriesOf(
        {Pick("Revenue", is, TOTAL_REVENUE),
         Pick("Net Income", is, NET_INCOME),
         Pick("Total Equity", bs, FirstLabelFrom(<<EQ1, EQ2>>, bs, 1)),
         Pick("Total Assets", bs, TOTAL_ASSETS),
         Pick("Total Debt", bs, FirstLabelFrom(<<TOTAL_DEBT, LONG_TERM_DEBT>>, bs, 1)),
         Pick("Operating Cash Flow", cf,
              FirstLabelFrom(<<OPERATING_CASH_FLOW,
                               TOTAL_CASH_FROM_OPERATING_ACTIVITIES>>, cf, 1)),
         Pick("Free Cash Flow", cf, FREE_CASH_FLOW)},
        cols, TRUE))

\* analyzer.py: 'Total Revenue' and 'Net Income' are looked up unguarded
\* (KeyError when the income statement lacks one of them)
Legacy_extract_historical_trends(is, bs, cf, cols) ==
    IF Filled(is) /\ ~({TOTAL_REVENUE, NET_INCOME} \subseteq index(is))
    THEN TrendsRaised
    ELSE TrendsReturned(SeriesOf(
        {Pick("Revenue", is, TOTAL_REVENUE),
         Pick("Net Income", is, NET_INCOME),
         Pick("Gross Profit", is, GROSS_PROFIT),
         Pick("Total Equity", bs, IF EQ1 \in index(bs) THEN EQ1 ELSE EQ2),
         Pick("Total Assets", bs, TOTAL_ASSETS),
         Pick("Total Debt", bs, TOTAL_DEBT),
         Pick("Operating Cash Flow", cf, OPERATING_CASH_FLOW),
         Pick("Free Cash Flow", cf, FREE_CASH_FLOW)},
        cols, TRUE))

\* get_series(t, first) or get_series(t, second): the truth value of a Series
\* is a ValueError, so the expression raises whenever the first row is found
OrRaises(t, first) == Filled(t) /\ first \in index(t)

\* libs/FundamentalAnalyszer.py compute_metrics, its series up to line 109,
\* with years at least the number of periods held (the slices keep every
\* column); financials None is an AttributeError at line 51
compute_metrics(financials, bs, cf, cols) ==
    IF \/ financials.isNone
       \/ OrRaises(financials, NET_INCOME)
       \/ OrRaises(financials, TOTAL_REVENUE)
       \/ OrRaises(bs, EQ2)
       \/ OrRaises(cf, TOTAL_CASH_FROM_OPERATING_ACTIVITIES)
    THEN TrendsRaised
    ELSE TrendsReturned(SeriesOf(
        {Pick("net_income_series", financials, "Net Income Common Stockholders"),
         Pick("revenue_series", financials, "Revenue"),
         Pick("total_equity_series", bs, "Total Equity"),
         Pick("total_assets_series", bs, TOTAL_ASSETS),
         Pick("long_debt_series", bs, LONG_TERM_DEBT)},
        cols, FALSE))

Tickers == {"", "aapl", "MSFT"}

KeyStatsChoices ==
    {MakeDict(("trailingPE" :> a) @@ ("priceToBook" :> b) @@ ("marketCap" :> c)) :
        a \in {Absent, Num(20), Str},
        b \in {Absent, NaN, Num(3)},
        c \in {Absent, Num(1000), Str, NumStr(1000)}}

AnaIncomeStatements ==
    {NoTable, Table(0, <<>>),
     Table(2, (NET_INCOME :> <<Num(50), Num(40)>>)
              @@ (TOTAL_REVENUE :> <<Num(500), Num(400)>>))}

AnaBalanceSheets ==
    {NoTable,
     Table(2, (EQ1 :> <<Num(100), Num(300)>>) @@ (TOTAL_ASSETS :> <<Num(1000), NaN>>)
              @@ (CURRENT_ASSETS :> <<Num(150), Num(100)>>)
              @@ (CURRENT_LIABILITIES :> <<Num(100), Num(100)>>)),
     Table(1, (EQ1 :> <<Num(0)>>)),
     Table(1, (EQ1 :> <<Str>>))}

AnaInit ==
    /\ pc = "start"
    /\ impl = "service"
    /\ ticker \in Tickers
    /\ provider \in {"raise", "none", "data"}
    /\ key_stats \in KeyStatsChoices
    /\ calculator \in {"service", "raise"}
    /\ income_stmt \in AnaIncomeStatements
    /\ balance_sheet \in AnaBalanceSheets
    /\ current_report = NoReport
    /\ returned = "pending"
    /\ called = {}
    /\ metrics = <<>>
    /\ total_debt = None
    /\ ebit = None
    /\ DivIdle
    /\ ResIdle
    /\ ScoreIdle
    /\ TrendIdle
    /\ CliIdle
    /\ SvcIdle
    /\ CacheIdle

\* lines 74-96: reset, fetch, and the report of a failed fetch
FetchData ==
    /\ pc = "start"
    /\ called' = called \cup {"fetch_all_data"}
    /\ IF provider = "raise"
       THEN pc' = "except" /\ UNCHANGED <<current_report, returned>>
       ELSE IF FetchFailed(provider, key_stats)
       THEN IF PostInitRaises(ticker)
            THEN pc' = "except" /\ UNCHANGED <<current_report, returned>>
            ELSE /\ current_report' = AnalysisReport(ticker, "N/A", <<>>, <<>>, FETCH_ERROR)
                 /\ returned' = "False"
                 /\ pc' = "done"
       ELSE pc' = "calculate" /\ UNCHANGED <<current_report, returned>>
    /\ UNCHANGED <<impl, ticker, provider, key_stats, calculator,
                   divVars, resVars, scoreVars, solvVars, trendVars, cliVars, svcVars, cacheVars>>

\* lines 98-110
CalculateMetrics ==
    /\ pc = "calculate"
    /\ called' = called \cup {"calculate_all_current_metrics"}
    /\ LET result == IF calculator = "raise" THEN Raised
                     ELSE calculate_all_current_metrics(income_stmt, balance_sheet,
                                                        key_stats)
       IN  IF result.raised
           THEN pc' = "except" /\ UNCHANGED metrics
           ELSE pc' = "score" /\ metrics' = result.metrics
    /\ UNCHANGED <<impl, ticker, provider, key_stats, calculator, current_report,
                   returned, balance_sheet, income_stmt, total_debt, ebit,
                   divVars, resVars, scoreVars, trendVars, cliVars, svcVars, cacheVars>>

\* lines 112-115
PerformScoring ==
    /\ pc = "score"
    /\ called' = called \cup {"_perform_scoring"}
    /\ LET result == _perform_scoring(metrics)
       IN  /\ overall_score' = result.overall
           /\ scores' = result.scores
           /\ points' = result.points
           /\ possible_points' = result.possible
           /\ credit' = result.credit
    /\ pc' = "trends"
    /\ UNCHANGED <<impl, ticker, provider, key_stats, calculator, current_report,
                   returned, metrics_dict, divVars, resVars, solvVars, trendVars, cliVars, svcVars, cacheVars>>

\* lines 117-118: _extract_historical_trends absorbs its own exceptions
ExtractTrends ==
    /\ pc = "trends"
    /\ called' = called \cup {"_extract_historical_trends"}
    /\ historical_trends' =
           _extract_historical_trends(income_stmt, balance_sheet, cash_flow, columns)
    /\ pc' = "compile"
    /\ UNCHANGED <<impl, ticker, provider, key_stats, calculator, current_report,
                   returned, cash_flow, columns, divVars, resVars, scoreVars, solvVars,
                   cliVars, svcVars, cacheVars>>

\* lines 120-134
CompileReport ==
    /\ pc = "compile"
    /\ IF PostInitRaises(ticker)
       THEN pc' = "except" /\ UNCHANGED <<current_report, returned>>
       ELSE /\ current_report' = AnalysisReport(ticker, overall_score, scores, metrics, "")
            /\ returned' = "True"
            /\ pc' = "done"
    /\ UNCHANGED <<impl, ticker, provider, key_stats, calculator, called,
                   divVars, resVars, scoreVars, solvVars, trendVars, cliVars, svcVars, cacheVars>>

\* lines 136-150: the except clause; an exception raised inside it leaves
\* analyze_stock
HandleException ==
    /\ pc = "except"
    /\ IF PostInitRaises(ticker)
       THEN returned' = "raised" /\ UNCHANGED current_report
       ELSE /\ current_report' = AnalysisReport(ticker, "Error", <<>>, <<>>, UNEXPECTED_ERROR)
            /\ returned' = "False"
    /\ pc' = "done"
    /\ UNCHANGED <<impl, ticker, provider, key_stats, calculator, called,
                   divVars, resVars, scoreVars, solvVars, trendVars, cliVars, svcVars, cacheVars>>

AnaNext ==
    \/ FetchData \/ CalculateMetrics \/ PerformScoring
    \/ ExtractTrends \/ CompileReport \/ HandleException

SpecAnalyze == AnaInit /\ [][AnaNext]_vars

ReportFor(tk) == ~current_report.isNone /\ current_report.ticker = Upper(tk)

(* C12: when fetch_all_data returns null or data without key statistics,
   analyze_stock (run for a ticker symbol, i.e. a non-empty string) returns
   False and leaves a current_report for that ticker with overall_score "N/A",
   a non-empty error_message and empty score breakdown and metrics; the metrics
   calculator, the scoring step and the trend extraction are never invoked in
   that run. *)
C12_FetchFailureReport ==
    (ticker # "" /\ provider # "raise"
        /\ (provider = "none" \/ DOMAIN key_stats = {})) =>
        /\ called \subseteq {"fetch_all_data"}
        /\ pc = "done" =>
              /\ returned = "False"
              /\ ReportFor(ticker)
              /\ current_report.overall_score = "N/A"
              /\ current_report.error_message # ""
              /\ current_report.score_breakdown = <<>>
              /\ current_report.current_metrics = <<>>

\* The provider returned data whose key statistics are empty, and the run ended.
C12_Witness ==
    /\ pc = "done"
    /\ ticker = "aapl"
    /\ provider = "data"
    /\ DOMAIN key_stats = {}
    /\ returned = "False"
    /\ ReportFor(ticker)
    /\ called = {"fetch_all_data"}

(* C13: for every ticker string and every behaviour of the data provider and
   the calculators (raised exceptions included), analyze_stock returns True or
   False without raising, and on return current_report is a non-null report
   for that ticker, with error_message set whenever the result is False. *)
C13_NeverRaises ==
    pc = "done" =>
        /\ returned \in {"True", "False"}
        /\ ReportFor(ticker)
        /\ returned = "False" => current_report.error_message # ""

\* The ratios calculate_all_current_metrics computes
AllRatios ==
    {ROE, ROA, GROSS_MARGIN, NET_MARGIN, PE, FORWARD_PE, PB, PEG, CURRENT_RATIO,
     QUICK_RATIO, ASSET_TURNOVER, INVENTORY_TURNOVER, DEBT_EQUITY, INTEREST_COVERAGE}

(* C14: an unexpected error while computing one ratio (for instance on a
   non-numeric key statistic used in the P/B derivation) is converted to "no
   data" for that ratio alone: calculate_all_current_metrics never raises,
   every other ratio is still computed, and the analysis (run for a ticker
   symbol with the service's own calculator) ends with a non-error report. *)
C14_RatioErrorIsolated ==
    (pc = "done" /\ ticker # "" /\ calculator = "service"
        /\ "calculate_all_current_metrics" \in called) =>
        /\ returned = "True"
        /\ ReportFor(ticker)
        /\ current_report.error_message = ""
        /\ AllRatios \subseteq DOMAIN current_report.current_metrics
        /\ (Get(key_stats, "priceToBook").k = "none"
               /\ Get(key_stats, "marketCap").k = "str") =>
                  NoData(Get(current_report.current_metrics, PB))

----------------------------------------------------------------------------
(* Trend extraction on statements whose columns come in any order *)

MaxPeriods == 3

\* Two periods of 2023 (a changed fiscal year end) and one of 2022
Periods == {202212, 202301, 202312}

ColumnOrders ==
    {c \in UNION {[1..n -> Periods] : n \in 0..MaxPeriods} :
        \A i, j \in DOMAIN c : i # j => c[i] # c[j]}

\* A statement with the rows labels over the columns cols; the cell of a
\* period holds the period's own number, so a value tells its period
TrendTable(labels, cols) ==
    Table(Len(cols), [l \in labels |-> [i \in 1..Len(cols) |-> Num(cols[i])]])

TrendInit ==
    /\ pc = "start"
    /\ impl = ""
    /\ columns \in ColumnOrders
    /\ \E labels \in SUBSET {TOTAL_REVENUE, NET_INCOME, "Revenue"} :
           income_stmt \in {NoTable, TrendTable(labels, columns)}
    /\ \E labels \in SUBSET {EQ1, EQ2, LONG_TERM_DEBT} :
           balance_sheet \in {NoTable, TrendTable(labels, columns)}
    /\ \E labels \in SUBSET {OPERATING_CASH_FLOW, FREE_CASH_FLOW} :
           cash_flow \in {NoTable, TrendTable(labels, columns)}
    /\ historical_trends = NoTrends
    /\ metrics = <<>>
    /\ total_debt = None
    /\ ebit = None
    /\ DivIdle
    /\ ResIdle
    /\ ScoreIdle
    /\ AnaIdle
    /\ CliIdle
    /\ SvcIdle
    /\ CacheIdle

ServiceTrends ==
    /\ pc = "start"
    /\ pc' = "done"
    /\ impl' = "service"
    /\ historical_trends' =
           _extract_historical_trends(income_stmt, balance_sheet, cash_flow, columns)
    /\ UNCHANGED <<cash_flow, columns, divVars, resVars, scoreVars, solvVars, anaVars,
                   cliVars, svcVars, cacheVars>>

LegacyTrends ==
    /\ pc = "start"
    /\ pc' = "done"
    /\ impl' = "legacy"
    /\ historical_trends' =
           Legacy_extract_historical_trends(income_stmt, balance_sheet, cash_flow,
                                            columns)
    /\ UNCHANGED <<cash_flow, columns, divVars, resVars, scoreVars, solvVars, anaVars,
                   cliVars, svcVars, cacheVars>>

LibsTrends ==
    /\ pc = "start"
    /\ pc' = "done"
    /\ impl' = "libs"
    /\ historical_trends' = compute_metrics(income_stmt, balance_sheet, cash_flow, columns)
    /\ UNCHANGED <<cash_flow, columns, divVars, resVars, scoreVars, solvVars, anaVars,
                   cliVars, svcVars, cacheVars>>

TrendNext == ServiceTrends \/ LegacyTrends \/ LibsTrends

SpecTrend == TrendInit /\ [][TrendNext]_vars

(* C15: every trend series that the extraction produces holds one entry for
   each period of its source row, and its entries follow one another in
   ascending chronological order, whatever the order of the source columns. *)
C15_TrendSeriesAscending ==
    (pc = "done" /\ ~historical_trends.raised) =>
        \A n \in DOMAIN historical_trends.series :
            LET s == historical_trends.series[n]
            IN  /\ Len(s) = Len(columns)
                /\ {s[i].value : i \in 1..Len(s)}
                       = {Num(columns[i]) : i \in 1..Len(columns)}
                /\ \A i, j \in 1..Len(s) : i < j => s[i].value.n < s[j].value.n
                /\ \A i \in 1..Len(s) :
                       s[i].index \in {s[i].value.n, s[i].value.n \div 100}

C15_Witness ==
    /\ pc = "done"
    /\ impl = "service"
    /\ columns = <<202301, 202312, 202212>>
    /\ "Revenue" \in DOMAIN historical_trends.series
    /\ "Total Debt" \in DOMAIN historical_trends.series
    /\ "Free Cash Flow" \in DOMAIN historical_trends.series

----------------------------------------------------------------------------
(* The interactive loops: interfaces/cli.py run_cli and main.py run_analysis.
   A string typed at a prompt is a sequence of characters. *)

WHITESPACE == {" ", "\t"}

RECURSIVE lstrip(_)
lstrip(s) == IF Len(s) > 0 /\ Head(s) \in WHITESPACE THEN lstrip(Tail(s)) ELSE s

RECURSIVE rstrip(_)
rstrip(s) ==
    IF Len(s) > 0 /\ s[Len(s)] \in WHITESPACE
    THEN rstrip(SubSeq(s, 1, Len(s) - 1))
    ELSE s

\* str.strip()
strip(s) == rstrip(lstrip(s))

LOWERCASE == <<"a", "e", "i", "l", "n", "p", "q", "s", "t", "u", "y">>
UPPERCASE == <<"A", "E", "I", "L", "N", "P", "Q", "S", "T", "U", "Y">>

Swap(c, from, to) ==
    IF \E i \in 1..Len(from) : from[i] = c
    THEN to[CHOOSE i \in 1..Len(from) : from[i] = c]
    ELSE c

\* str.upper() and str.lower()
upper(s) == [i \in 1..Len(s) |-> Swap(s[i], LOWERCASE, UPPERCASE)]
lower(s) == [i \in 1..Len(s) |-> Swap(s[i], UPPERCASE, LOWERCASE)]

QUIT == <<"Q", "U", "I", "T">>
YES == <<"y">>

\* What the loop does, as seen from outside: input() calls with the line they
\* returned, print() calls, calls of collaborators and what they returned or
\* raised
Ev(ev, what, arg) == [ev |-> ev, what |-> what, arg |-> arg]
Input(prompt, line) == Ev("input", prompt, line)
Printed(what, arg) == Ev("print", what, arg)
Call(what, arg) == Ev("call", what, arg)
Return(what, result) == Ev("return", what, <<result>>)
Raises(what, exc) == Ev("raise", what, exc)

\* An exception is <<type name, message>>
KeyboardInterrupt == <<"KeyboardInterrupt", "">>
EOFError == <<"EOFError", "EOF when reading a line">>
Errors == {<<"RuntimeError", "Something broke unexpectedly!">>,
           <<"ValueError", "bad value">>}

\* input(): a line, Ctrl-C, or the end of standard input
InputOutcomes(lines) ==
    {[raises |-> FALSE, line |-> l, exc |-> <<>>] : l \in lines}
        \cup {[raises |-> TRUE, line |-> <<>>, exc |-> e] :
                 e \in {KeyboardInterrupt, EOFError}}

\* A collaborator returns one of results or raises
CallOutcomes(results) ==
    {[raises |-> FALSE, result |-> r, exc |-> <<>>] : r \in results}
        \cup {[raises |-> TRUE, result |-> "", exc |-> e] :
                 e \in Errors \cup {KeyboardInterrupt}}

TickerLines ==
    {<<"q", "u", "i", "t">>, <<" ", "Q", "u", "I", "t", "\t">>,
     <<>>, <<" ", "\t">>,
     <<"a", "a", "p", "l">>, <<" ", "A", "A", "P", "L", " ">>,
     <<"q", "u", "i", "t", "s">>}

AnswerLines == {<<"y">>, <<" ", "Y", " ">>, <<"n">>, <<>>, <<"y", "e", "s">>}

FilenameLines == {<<>>, <<" ">>, <<" ", "out", ".xlsx", " ">>}

MaxPrompts == 2

\* ticker == 'QUIT'
IsQuit(t) == t = QUIT

\* Mutant: an empty ticker is analysed like any other.
IsEmpty_Never(t) == FALSE

\* not ticker
IsEmpty(t) == Len(t) = 0

\* Mutant: the results are shown whatever analyze_stock returned.
AfterAnalyze_Always(success) == "summary"

\* cli.py lines 63-69: where the iteration goes after analyze_stock returned
AfterAnalyze(success) == IF success = "False" THEN "prompt" ELSE "summary"

\* Mutant: any answer but "n" is taken for a yes.
Wants_NotNo(answer) == answer # <<"n">>

\* show_plots == 'y', export_file == 'y'
Wants(answer) == answer = YES

\* cli.py lines 83-85, main.py lines 52-55
ExportFilename(filename_input, t) ==
    IF Len(strip(filename_input)) > 0
    THEN strip(filename_input)
    ELSE t \o <<"_fundamental_analysis.xlsx">>

\* Mutant: the report names no exception type.
ErrorReport_NoType(exc) ==
    <<Printed("An unexpected error occurred", <<>>),
      Printed("Error Details", <<exc[2]>>),
      Printed("Please try again or enter a different ticker.", <<>>)>>

\* cli.py lines 106-113, main.py lines 62-68
ErrorReport(exc) ==
    <<Printed("An unexpected error occurred", <<>>),
      Printed("Error Type", <<exc[1]>>),
      Printed("Error Details", <<exc[2]>>),
      Printed("Please try again or enter a different ticker.", <<>>)>>

Separator == Printed("separator", <<>>)
Goodbye == Printed("Exiting Fundamental Analysis Tool. Goodbye!", <<>>)

\* The except clauses of the loop and what follows them: cli.py lines 102-117,
\* main.py lines 58-72.  events is what the iteration did up to the exception.
Caught(events, exc) ==
    IF exc = KeyboardInterrupt
    THEN /\ trace' = events \o <<Printed("Analysis interrupted by user.", <<>>), Goodbye>>
         /\ pc' = "exit"
         /\ ended' = "interrupt"
    ELSE /\ trace' = events \o ErrorReport(exc) \o <<Separator>>
         /\ pc' = "prompt"
         /\ ended' = ended

\* The user's last line at the ticker prompt is one that ends the session
EndsSession(o) ==
    \/ o.raises /\ o.exc = KeyboardInterrupt
    \/ ~o.raises /\ IsQuit(upper(strip(o.line)))

cliFrame ==
    <<impl, divVars, resVars, scoreVars, solvVars, provider, key_stats, calculator,
      current_report, returned, called, trendVars, svcVars, cacheVars>>

CliInit ==
    /\ pc = "prompt"
    /\ impl \in {"cli", "main"}
    /\ ticker = <<>>
    /\ provider = "none"
    /\ key_stats = <<>>
    /\ calculator = "service"
    /\ current_report = NoReport
    /\ returned = "pending"
    /\ called = {}
    /\ CliIdle
    /\ SvcIdle
    /\ CacheIdle
    /\ DivIdle
    /\ ResIdle
    /\ ScoreIdle
    /\ SolvIdle
    /\ TrendIdle

\* The ticker typed at the prompt, lines 51-58 of cli.py and 13-18 of main.py
ReadTicker(o) ==
    LET t == upper(strip(o.line))
    IN  /\ ticker' = t
        /\ IF IsQuit(t)
           THEN /\ trace' = <<Input("ticker", o.line), Goodbye>>
                /\ pc' = "exit"
                /\ ended' = "quit"
                /\ UNCHANGED entered
           ELSE IF IsEmpty(t)
           THEN /\ trace' = <<Input("ticker", o.line),
                              Printed("Ticker symbol cannot be empty.", <<>>)>>
                /\ pc' = "prompt"
                /\ UNCHANGED <<ended, entered>>
           ELSE /\ trace' = <<Input("ticker", o.line), Printed("Analyzing", t)>>
                /\ pc' = "analyze"
                /\ entered' = entered + 1
                /\ UNCHANGED ended

\* cli.py lines 51-58; the prompt is inside the try
TickerInput ==
    /\ impl = "cli"
    /\ pc = "prompt"
    /\ \E o \in InputOutcomes(TickerLines) :
           /\ prompts < MaxPrompts \/ EndsSession(o)
           /\ IF o.raises
              THEN /\ Caught(<<Raises("input", o.exc)>>, o.exc)
                   /\ UNCHANGED <<ticker, entered>>
              ELSE ReadTicker(o)
    /\ prompts' = prompts + 1
    /\ UNCHANGED <<analyzed, show_plots, export_file, filename, cliFrame>>

\* cli.py lines 61-66
AnalyzeStock ==
    /\ impl = "cli"
    /\ pc = "analyze"
    /\ analyzed' = analyzed + 1
    /\ \E o \in CallOutcomes({"True", "False"}) :
           IF o.raises
           THEN Caught(trace \o <<Call("analyze_stock", ticker),
                                  Raises("analyze_stock", o.exc)>>, o.exc)
           ELSE /\ trace' = trace \o <<Call("analyze_stock", ticker),
                                       Return("analyze_stock", o.result)>>
                               \o (IF o.result = "False"
                                   THEN <<Printed("Analysis failed", ticker)>>
                                   ELSE <<>>)
                /\ pc' = AfterAnalyze(o.result)
                /\ UNCHANGED ended
    /\ UNCHANGED <<ticker, prompts, entered, show_plots, export_file, filename, cliFrame>>

\* cli.py lines 69-70
GetSummary ==
    /\ impl = "cli"
    /\ pc = "summary"
    /\ \E o \in CallOutcomes({"summary"}) :
           IF o.raises
           THEN Caught(trace \o <<Call("get_summary_string", <<>>),
                                  Raises("get_summary_string", o.exc)>>, o.exc)
           ELSE /\ trace' = trace \o <<Call("get_summary_string", <<>>),
                                       Printed("summary", <<>>)>>
                /\ pc' = "ask_plots"
                /\ UNCHANGED ended
    /\ UNCHANGED <<ticker, prompts, entered, analyzed, show_plots, export_file, filename,
                   cliFrame>>

\* cli.py lines 73-75
PlotAnswer ==
    /\ impl = "cli"
    /\ pc = "ask_plots"
    /\ \E o \in InputOutcomes(AnswerLines) :
           IF o.raises
           THEN /\ Caught(trace \o <<Raises("input", o.exc)>>, o.exc)
                /\ UNCHANGED show_plots
           ELSE /\ show_plots' = lower(strip(o.line))
                /\ IF Wants(show_plots')
                   THEN /\ trace' = trace \o <<Input("plots", o.line),
                                               Printed("Generating and displaying plots...", <<>>)>>
                        /\ pc' = "plots"
                   ELSE /\ trace' = trace \o <<Input("plots", o.line)>>
                        /\ pc' = "ask_export"
                /\ UNCHANGED ended
    /\ UNCHANGED <<ticker, prompts, entered, analyzed, export_file, filename, cliFrame>>

\* cli.py lines 77-78
GeneratePlots ==
    /\ impl = "cli"
    /\ pc = "plots"
    /\ \E o \in CallOutcomes({"None"}) :
           IF o.raises
           THEN Caught(trace \o <<Call("generate_and_display_plots", <<>>),
                                  Raises("generate_and_display_plots", o.exc)>>, o.exc)
           ELSE /\ trace' = trace \o <<Call("generate_and_display_plots", <<>>),
                                       Printed("(Close plot windows to continue)", <<>>)>>
                /\ pc' = "ask_export"
                /\ UNCHANGED ended
    /\ UNCHANGED <<ticker, prompts, entered, analyzed, show_plots, export_file, filename,
                   cliFrame>>

\* cli.py lines 81-82, and line 115 when the answer is not "y"
ExportAnswer ==
    /\ impl = "cli"
    /\ pc = "ask_export"
    /\ \E o \in InputOutcomes(AnswerLines) :
           IF o.raises
           THEN /\ Caught(trace \o <<Raises("input", o.exc)>>, o.exc)
                /\ UNCHANGED export_file
           ELSE /\ export_file' = lower(strip(o.line))
                /\ IF Wants(export_file')
                   THEN /\ trace' = trace \o <<Input("export", o.line)>>
                        /\ pc' = "ask_filename"
                   ELSE /\ trace' = trace \o <<Input("export", o.line), Separator>>
                        /\ pc' = "prompt"
                /\ UNCHANGED ended
    /\ UNCHANGED <<ticker, prompts, entered, analyzed, show_plots, filename, cliFrame>>

\* cli.py lines 83-87
FilenameInput ==
    /\ impl = "cli"
    /\ pc = "ask_filename"
    /\ \E o \in InputOutcomes(FilenameLines) :
           IF o.raises
           THEN /\ Caught(trace \o <<Raises("input", o.exc)>>, o.exc)
                /\ UNCHANGED filename
           ELSE /\ filename' = ExportFilename(o.line, ticker)
                /\ trace' = trace \o <<Input("filename", o.line),
                                       Printed("Exporting data to", filename')>>
                /\ pc' = "export"
                /\ UNCHANGED ended
    /\ UNCHANGED <<ticker, prompts, entered, analyzed, show_plots, export_file, cliFrame>>

\* cli.py lines 88-98 and 115: the inner try catches every Exception of the
\* export; a KeyboardInterrupt goes to the handlers of the loop
ExportAnalysis ==
    /\ impl = "cli"
    /\ pc = "export"
    /\ \E o \in CallOutcomes({"None"}) :
           IF o.raises /\ o.exc = KeyboardInterrupt
           THEN Caught(trace \o <<Call("export_analysis", filename),
                                  Raises("export_analysis", o.exc)>>, o.exc)
           ELSE /\ trace' = trace \o <<Call("export_analysis", filename)>>
                               \o (IF o.raises
                                   THEN <<Raises("export_analysis", o.exc),
                                          Printed("Error exporting data to Excel",
                                                  <<o.exc[2]>>)>>
                                   ELSE <<Printed("Data successfully exported to", filename)>>)
                               \o <<Separator>>
                /\ pc' = "prompt"
                /\ UNCHANGED ended
    /\ UNCHANGED <<ticker, prompts, entered, analyzed, show_plots, export_file, filename,
                   cliFrame>>

\* main.py lines 13-18; the prompt is outside the try, so what input() raises
\* leaves run_analysis
RunTickerInput ==
    /\ impl = "main"
    /\ pc = "prompt"
    /\ \E o \in InputOutcomes(TickerLines) :
           /\ prompts < MaxPrompts \/ EndsSession(o)
           /\ IF o.raises
              THEN /\ trace' = <<Raises("input", o.exc)>>
                   /\ pc' = "exit"
                   /\ ended' = "raised"
                   /\ UNCHANGED <<ticker, entered>>
              ELSE ReadTicker(o)
    /\ prompts' = prompts + 1
    /\ UNCHANGED <<analyzed, show_plots, export_file, filename, cliFrame>>

\* main.py lines 20-42: StockAnalyzer, fetch_data, calculate_metrics,
\* perform_scoring, display_summary
RunAnalysis ==
    /\ impl = "main"
    /\ pc = "analyze"
    /\ analyzed' = analyzed + 1
    /\ \E o \in CallOutcomes({"True", "False"}) :
           IF o.raises
           THEN Caught(trace \o <<Call("fetch_data", ticker),
                                  Raises("fetch_data", o.exc)>>, o.exc)
           ELSE IF o.result = "False"
           THEN /\ trace' = trace \o <<Call("fetch_data", ticker),
                                       Return("fetch_data", o.result),
                                       Printed("Failed to fetch data", ticker)>>
                /\ pc' = "prompt"
                /\ UNCHANGED ended
           ELSE /\ trace' = trace \o <<Call("fetch_data", ticker),
                                       Return("fetch_data", o.result),
                                       Call("calculate_metrics", <<>>),
                                       Call("perform_scoring", <<>>),
                                       Call("display_summary", <<>>)>>
                /\ pc' = "ask_plots"
                /\ UNCHANGED ended
    /\ UNCHANGED <<ticker, prompts, entered, show_plots, export_file, filename, cliFrame>>

\* main.py lines 45-47
RunPlotAnswer ==
    /\ impl = "main"
    /\ pc = "ask_plots"
    /\ \E o \in InputOutcomes(AnswerLines), c \in CallOutcomes({"None"}) :
           IF o.raises
           THEN /\ Caught(trace \o <<Raises("input", o.exc)>>, o.exc)
                /\ UNCHANGED show_plots
           ELSE /\ show_plots' = lower(strip(o.line))
                /\ IF Wants(show_plots') /\ c.raises
                   THEN Caught(trace \o <<Input("plots", o.line), Call("plot_trends", <<>>),
                                          Raises("plot_trends", c.exc)>>, c.exc)
                   ELSE /\ trace' = trace \o <<Input("plots", o.line)>>
                                       \o (IF Wants(show_plots')
                                           THEN <<Call("plot_trends", <<>>)>>
                                           ELSE <<>>)
                        /\ pc' = "ask_export"
                        /\ UNCHANGED ended
    /\ UNCHANGED <<ticker, prompts, entered, analyzed, export_file, filename, cliFrame>>

\* main.py lines 50-51, and line 70 when the answer is not "y"
RunExportAnswer ==
    /\ impl = "main"
    /\ pc = "ask_export"
    /\ \E o \in InputOutcomes(AnswerLines) :
           IF o.raises
           THEN /\ Caught(trace \o <<Raises("input", o.exc)>>, o.exc)
                /\ UNCHANGED export_file
           ELSE /\ export_file' = lower(strip(o.line))
                /\ IF Wants(export_file')
                   THEN /\ trace' = trace \o <<Input("export", o.line)>>
                        /\ pc' = "ask_filename"
                   ELSE /\ trace' = trace \o <<Input("export", o.line), Separator>>
                        /\ pc' = "prompt"
                /\ UNCHANGED ended
    /\ UNCHANGED <<ticker, prompts, entered, analyzed, show_plots, filename, cliFrame>>

\* main.py lines 52-56 and 70: export_to_excel has no handler of its own
RunExport ==
    /\ impl = "main"
    /\ pc = "ask_filename"
    /\ \E o \in InputOutcomes(FilenameLines), c \in CallOutcomes({"None"}) :
           IF o.raises
           THEN /\ Caught(trace \o <<Raises("input", o.exc)>>, o.exc)
                /\ UNCHANGED filename
           ELSE /\ filename' = ExportFilename(o.line, ticker)
                /\ IF c.raises
                   THEN Caught(trace \o <<Input("filename", o.line),
                                          Call("export_to_excel", filename'),
                                          Raises("export_to_excel", c.exc)>>, c.exc)
                   ELSE /\ trace' = trace \o <<Input("filename", o.line),
                                               Call("export_to_excel", filename'),
                                               Separator>>
                        /\ pc' = "prompt"
                        /\ UNCHANGED ended
    /\ UNCHANGED <<ticker, prompts, entered, analyzed, show_plots, export_file, cliFrame>>

CliNext ==
    \/ TickerInput \/ AnalyzeStock \/ GetSummary \/ PlotAnswer \/ GeneratePlots
    \/ ExportAnswer \/ FilenameInput \/ ExportAnalysis
    \/ RunTickerInput \/ RunAnalysis \/ RunPlotAnswer \/ RunExportAnswer \/ RunExport

SpecCli == CliInit /\ [][CliNext]_vars

\* The first event of the iteration is the line typed at the ticker prompt
TickerTyped == Len(trace) > 0 /\ trace[1].ev = "input" /\ trace[1].what = "ticker"

Positions(ev, what) ==
    {i \in 1..Len(trace) : trace[i].ev = ev /\ trace[i].what = what}

Count(ev, what) == Cardinality(Positions(ev, what))

Interrupted ==
    \E i \in 1..Len(trace) : trace[i].ev = "raise" /\ trace[i].arg = KeyboardInterrupt

AnalysisCalls == Count("call", "analyze_stock") + Count("call", "fetch_data")

(* C16: a line that is "quit" once stripped and upper-cased, typed at the
   ticker prompt of run_cli or run_analysis, ends the loop at once: the goodbye
   message is printed, the function returns, nothing more is asked and no
   analysis is started for that line; and the loop ends in no other way than
   by quit or by a keyboard interrupt. *)
C16_QuitEndsLoop ==
    /\ (TickerTyped /\ upper(strip(trace[1].arg)) = QUIT) =>
           /\ trace = <<trace[1], Goodbye>>
           /\ pc = "exit"
           /\ ended = "quit"
           /\ AnalysisCalls = 0
    /\ pc = "exit" => (ended = "quit" \/ Interrupted)

ResultCalls == {"get_summary_string", "generate_and_display_plots", "export_analysis"}

(* C17: when analyze_stock returns False in run_cli, the failure message for
   the ticker is the last thing the iteration does before the next ticker
   prompt, and get_summary_string, generate_and_display_plots and
   export_analysis are not called in it; whenever one of the three is called,
   analyze_stock was called before it in the same iteration with the ticker
   typed at its prompt and returned True. *)
C17_FailureSkipsResults ==
    impl = "cli" =>
        /\ (\E i \in 1..Len(trace) : trace[i] = Return("analyze_stock", "False")) =>
               /\ pc = "prompt"
               /\ trace[Len(trace)] = Printed("Analysis failed", ticker)
               /\ \A i \in 1..Len(trace) :
                      ~(trace[i].ev = "call" /\ trace[i].what \in ResultCalls)
               /\ Count("input", "plots") + Count("input", "export") = 0
        /\ \A i \in 1..Len(trace) :
               (trace[i].ev = "call" /\ trace[i].what \in ResultCalls) =>
                   /\ TickerTyped
                   /\ \E j \in 2..(i - 1) :
                          /\ trace[j] = Return("analyze_stock", "True")
                          /\ trace[j - 1] = Call("analyze_stock",
                                                 upper(strip(trace[1].arg)))

C17_Witness ==
    /\ impl = "cli"
    /\ pc = "prompt"
    /\ prompts = 2
    /\ Len(trace) > 0
    /\ trace[Len(trace)] = Printed("Analysis failed", <<"A", "A", "P", "L">>)

(* C18: in run_cli an exception other than a keyboard interrupt, raised by a
   prompt, by analyze_stock, by get_summary_string or by
   generate_and_display_plots, is reported with its type name and its message,
   after which the separator is printed and the loop is back at the ticker
   prompt; one raised by export_analysis is reported with its message, and the
   separator and the next ticker prompt follow all the same; run_cli is never
   left by an exception, it ends only by quit or by a keyboard interrupt. *)
C18_ExceptionsCaught ==
    impl = "cli" =>
        /\ ended # "raised"
        /\ pc = "exit" => (ended = "quit" \/ Interrupted)
        /\ \A i \in 1..Len(trace) :
               (trace[i].ev = "raise" /\ trace[i].arg # KeyboardInterrupt) =>
                   /\ pc = "prompt"
                   /\ ended = "running"
                   /\ trace[Len(trace)] = Printed("separator", <<>>)
                   /\ IF trace[i].what = "export_analysis"
                      THEN /\ Len(trace) = i + 2
                           /\ trace[i + 1] = Printed("Error exporting data to Excel",
                                                     <<trace[i].arg[2]>>)
                      ELSE /\ Len(trace) = i + 5
                           /\ trace[i + 2] = Printed("Error Type", <<trace[i].arg[1]>>)
                           /\ trace[i + 3] = Printed("Error Details", <<trace[i].arg[2]>>)

C18_Witness ==
    /\ impl = "cli"
    /\ pc = "prompt"
    /\ \E i \in 1..Len(trace) :
           trace[i] = Raises("generate_and_display_plots",
                             <<"RuntimeError", "Something broke unexpectedly!">>)

Before(A, B) == \A a \in A, b \in B : a < b

\* The normalised line typed at the one prompt whose position is in A
Answer(A) == lower(strip(trace[CHOOSE a \in A : TRUE].arg))

(* C19: in an iteration of run_cli whose analyze_stock returned True, the
   summary is printed once, the plot question comes after it and the export
   question after the plot question; generate_and_display_plots is called
   once when the plot answer is "y" and not at all otherwise;
   export_analysis is called once when the export answer is "y" and the
   filename prompt was answered, and not at all otherwise, with the typed
   filename (stripped) or, when that is empty, the ticker followed by
   "_fundamental_analysis.xlsx". *)
C19_ResultsInOrder ==
    (impl = "cli" /\ \E i \in 1..Len(trace) : trace[i] = Return("analyze_stock", "True")) =>
        LET S == Positions("print", "summary")
            P == Positions("input", "plots")
            G == Positions("call", "generate_and_display_plots")
            X == Positions("input", "export")
            F == Positions("input", "filename")
            E == Positions("call", "export_analysis")
        IN  /\ \A A \in {S, P, G, X, F, E} : Cardinality(A) <= 1
            /\ Count("call", "get_summary_string") <= 1
            /\ P # {} => Cardinality(S) = 1
            /\ X # {} => P # {}
            /\ Before(S, P) /\ Before(P, G) /\ Before(G, X) /\ Before(P, X)
            /\ Before(X, F) /\ Before(F, E)
            /\ G # {} => (P # {} /\ Answer(P) = <<"y">>)
            /\ (P # {} /\ Answer(P) = <<"y">> /\ pc # "plots") => Cardinality(G) = 1
            /\ E # {} => (X # {} /\ Answer(X) = <<"y">> /\ F # {})
            /\ (X # {} /\ Answer(X) = <<"y">> /\ F # {} /\ pc # "export") =>
                   Cardinality(E) = 1
            /\ \A e \in E :
                   LET typed == strip(trace[CHOOSE f \in F : TRUE].arg)
                   IN  trace[e].arg =
                           IF Len(typed) = 0
                           THEN upper(strip(trace[1].arg)) \o <<"_fundamental_analysis.xlsx">>
                           ELSE typed

C19_Witness ==
    /\ impl = "cli"
    /\ pc = "prompt"
    /\ Count("call", "generate_and_display_plots") = 1
    /\ \E i \in 1..Len(trace) :
           trace[i] = Call("export_analysis",
                           <<"A", "A", "P", "L", "_fundamental_analysis.xlsx">>)

(* C20: a ticker line that is empty once stripped makes run_cli and
   run_analysis print "Ticker symbol cannot be empty." and go back to the
   ticker prompt without starting an analysis; an analysis (analyze_stock in
   run_cli, StockAnalyzer.fetch_data in run_analysis) is started once, with the
   normalised ticker, for every line that is neither empty nor quit, and for
   no other line. *)
C20_EmptyTickerPromptsAgain ==
    LET t == upper(strip(trace[1].arg))
        started == {i \in 1..Len(trace) :
                       /\ trace[i].ev = "call"
                       /\ trace[i].what \in {"analyze_stock", "fetch_data"}}
    IN  /\ (TickerTyped /\ Len(t) = 0) =>
               /\ trace = <<trace[1], Printed("Ticker symbol cannot be empty.", <<>>)>>
               /\ pc = "prompt"
               /\ ended = "running"
        /\ Cardinality(started) <= 1
        /\ \A i \in started : TickerTyped /\ Len(t) > 0 /\ t # QUIT /\ trace[i].arg = t
        /\ (TickerTyped /\ Len(t) > 0 /\ t # QUIT /\ pc # "analyze") =>
               Cardinality(started) = 1
        /\ analyzed = IF pc = "analyze" THEN entered - 1 ELSE entered

C20_Witness ==
    /\ impl = "cli"
    /\ prompts = 2
    /\ analyzed = 1
    /\ pc = "prompt"
    /\ trace = <<Input("ticker", <<" ", "\t">>),
                 Printed("Ticker symbol cannot be empty.", <<>>)>>

----------------------------------------------------------------------------
(* The AnalysisService object over several analyze_stock calls, one after the
   other or interleaved (two threads on one service), and export_analysis.
   What is stored is tagged with the ticker it was derived from. *)

RunIds == {1, 2}

MaxCalls == 3

SvcTickers == {"AAPL", "MSFT"}

Owned(t, kind) == [isNone |-> FALSE, ticker |-> t, kind |-> kind]

IdleRun == [pc |-> "idle", ticker |-> "", fetch |-> "", calc |-> "", returned |-> ""]

\* Mutant: the attribute keeps what the previous call left in it.
Cleared_Kept(old) == old

\* lines 74-76: self.<attribute> = None
Cleared(old) == NoReport

Quiescent == \A r \in RunIds : runs[r].pc \in {"idle", "done"}

\* export_analysis, lines 365-394: the ways the call can end
export_analysis(report, raw_data) ==
    IF report.isNone THEN {"ValueError"}
    ELSE IF raw_data.isNone THEN {"AttributeError"}
    ELSE {"returned", "relayed"}

svcFrame ==
    <<pc, impl, divVars, resVars, scoreVars, solvVars, ticker, provider, key_stats,
      calculator, returned, called, trendVars, cliVars, cacheVars>>

SvcInit ==
    /\ pc = "start"
    /\ impl \in {"sequential", "concurrent"}
    /\ runs = [r \in RunIds |-> IdleRun]
    /\ current_report = NoReport
    /\ _raw_data = NoReport
    /\ _historical_trends = NoReport
    /\ last_ticker = ""
    /\ calls = 0
    /\ export_result = ""
    /\ ticker = ""
    /\ provider = "none"
    /\ key_stats = <<>>
    /\ calculator = "service"
    /\ returned = "pending"
    /\ called = {}
    /\ DivIdle
    /\ ResIdle
    /\ ScoreIdle
    /\ SolvIdle
    /\ TrendIdle
    /\ CliIdle
    /\ CacheIdle

\* analyze_stock is entered and line 74 runs.  One after the other, a call
\* begins when none is running; interleaved, each thread makes one call and
\* the two tickers differ.
Begin(r) ==
    /\ calls < MaxCalls
    /\ IF impl = "sequential"
       THEN Quiescent
       ELSE runs[r].pc = "idle"
    /\ \E t \in SvcTickers, f \in {"none", "nokeys", "data", "raise"},
          c \in {"ok", "raise"} :
           /\ impl = "concurrent" => \A q \in RunIds \ {r} : runs[q].ticker # t
           /\ runs' = [runs EXCEPT ![r] = [pc |-> "reset_raw", ticker |-> t, fetch |-> f,
                                           calc |-> c, returned |-> ""]]
           /\ last_ticker' = t
    /\ current_report' = Cleared(current_report)
    /\ calls' = calls + 1
    /\ export_result' = ""
    /\ UNCHANGED <<_raw_data, _historical_trends, svcFrame>>

\* line 75
ResetRawData(r) ==
    /\ runs[r].pc = "reset_raw"
    /\ _raw_data' = Cleared(_raw_data)
    /\ runs' = [runs EXCEPT ![r].pc = "reset_trends"]
    /\ UNCHANGED <<current_report, _historical_trends, last_ticker, calls, export_result,
                   svcFrame>>

\* line 76
ResetTrends(r) ==
    /\ runs[r].pc = "reset_trends"
    /\ _historical_trends' = Cleared(_historical_trends)
    /\ runs' = [runs EXCEPT ![r].pc = "fetch"]
    /\ UNCHANGED <<current_report, _raw_data, last_ticker, calls, export_result,
                   svcFrame>>

\* lines 83-90
Fetch(r) ==
    /\ runs[r].pc = "fetch"
    /\ CASE runs[r].fetch = "raise" ->
                /\ runs' = [runs EXCEPT ![r].pc = "except"]
                /\ UNCHANGED <<current_report, _raw_data>>
         [] runs[r].fetch \in {"none", "nokeys"} ->
                /\ current_report' = Owned(runs[r].ticker, "fetch_error")
                /\ runs' = [runs EXCEPT ![r].pc = "done", ![r].returned = "False"]
                /\ UNCHANGED _raw_data
         [] OTHER ->
                /\ _raw_data' = Owned(runs[r].ticker, "raw")
                /\ runs' = [runs EXCEPT ![r].pc = "calc"]
                /\ UNCHANGED current_report
    /\ UNCHANGED <<_historical_trends, last_ticker, calls, export_result, svcFrame>>

\* lines 98-118: the calculators, the scoring and the trend extraction work
\* on locals; line 118 stores the trends
Calculate(r) ==
    /\ runs[r].pc = "calc"
    /\ IF runs[r].calc = "raise"
       THEN /\ runs' = [runs EXCEPT ![r].pc = "except"]
            /\ UNCHANGED _historical_trends
       ELSE /\ _historical_trends' = Owned(runs[r].ticker, "trends")
            /\ runs' = [runs EXCEPT ![r].pc = "compile"]
    /\ UNCHANGED <<current_report, _raw_data, last_ticker, calls, export_result,
                   svcFrame>>

\* lines 122-134
StoreReport(r) ==
    /\ runs[r].pc = "compile"
    /\ current_report' = Owned(runs[r].ticker, "ok")
    /\ runs' = [runs EXCEPT ![r].pc = "done", ![r].returned = "True"]
    /\ UNCHANGED <<_raw_data, _historical_trends, last_ticker, calls, export_result,
                   svcFrame>>

\* lines 136-150
Except(r) ==
    /\ runs[r].pc = "except"
    /\ current_report' = Owned(runs[r].ticker, "error")
    /\ runs' = [runs EXCEPT ![r].pc = "done", ![r].returned = "False"]
    /\ UNCHANGED <<_raw_data, _historical_trends, last_ticker, calls, export_result,
                   svcFrame>>

\* export_analysis called between two analyses
Export ==
    /\ Quiescent
    /\ export_result' \in export_analysis(current_report, _raw_data)
    /\ UNCHANGED <<runs, current_report, _raw_data, _historical_trends, last_ticker,
                   calls, svcFrame>>

SvcNext ==
    \/ \E r \in RunIds :
           \/ Begin(r) \/ ResetRawData(r) \/ ResetTrends(r) \/ Fetch(r)
           \/ Calculate(r) \/ StoreReport(r) \/ Except(r)
    \/ Export

SpecService == SvcInit /\ [][SvcNext]_vars

(* C21: export_analysis raises ValueError when the service holds no report;
   when it holds one, the error report of a failed analyze_stock included, the
   call either returns or raises what the export utility raised. *)
C21_ExportRaisesOnlyRelayed ==
    export_result # "" =>
        IF current_report.isNone
        THEN export_result = "ValueError"
        ELSE export_result \in {"returned", "relayed"}

\* The tickers that what the service stores was derived from
StoredTickers ==
    {x.ticker : x \in {y \in {current_report, _raw_data, _historical_trends} : ~y.isNone}}

(* C22: when two analyze_stock runs for different tickers interleave on one
   AnalysisService, each run returns what it returns when run alone, and once
   both have returned, the stored current_report, _raw_data and
   _historical_trends all belong to one and the same ticker. *)
C22_NoMixedState ==
    impl = "concurrent" =>
        /\ \A r \in RunIds :
               runs[r].pc = "done" =>
                   runs[r].returned =
                       IF runs[r].fetch = "data" /\ runs[r].calc = "ok"
                       THEN "True" ELSE "False"
        /\ (\A r \in RunIds : runs[r].pc = "done") => Cardinality(StoredTickers) <= 1

(* C23: when analyze_stock calls follow one another on one AnalysisService,
   then after each call each of current_report, _raw_data and
   _historical_trends is None or was derived from the ticker of that call,
   whether the call succeeded, failed at the fetch or failed unexpectedly. *)
C23_NothingSurvives ==
    (impl = "sequential" /\ Quiescent /\ calls > 0) =>
        StoredTickers \subseteq {last_ticker}

C23_Witness ==
    /\ impl = "sequential"
    /\ Quiescent
    /\ runs[1].ticker = "AAPL" /\ runs[1].returned = "True"
    /\ runs[2].ticker = "MSFT" /\ runs[2].returned = "False" /\ runs[2].fetch = "none"
    /\ last_ticker = "MSFT"
    /\ ~current_report.isNone
    /\ _raw_data.isNone

(* ------------------------------------------------------------------ *)
(* The Total Debt fallback of the service's solvency calculator *)

LongTermDebtResolved ==
    _get_value_from_df(balance_sheet,
        ListLabels(<<LONG_TERM_DEBT, "Long Term Debt Noncurrent">>), 0, FALSE)

ShortTermDebtResolved ==
    _get_value_from_df(balance_sheet,
        ListLabels(<<CURRENT_DEBT, SHORT_TERM_DEBT,
                     "Current Debt And Capital Lease Obligation",
                     "Short Term Borrowings">>), 0, FALSE)

TotalDebtUnresolved ==
    ~Valid(_get_value_from_df(balance_sheet, ListLabels(<<TOTAL_DEBT>>), 0, FALSE))

FallbackCase ==
    /\ pc = "done"
    /\ impl = "service"
    /\ TotalDebtUnresolved
    /\ Valid(LongTermDebtResolved) \/ Valid(ShortTermDebtResolved)

(* C24: in the service's solvency calculator, when the Total Debt row does not
   resolve and at least one of Long-Term Debt and Short-Term Debt resolves to
   a number, Total Debt is the sum of the resolved components with an
   unresolved one counted as zero, for every resolved value, a resolved value
   of exactly 0 included. *)
C24_FallbackDebtIsSum ==
    FallbackCase =>
        total_debt = RAdd(OrZero(LongTermDebtResolved), OrZero(ShortTermDebtResolved))

\* The same with a positive component: the case the code's test lets through.
C24_PositiveComponent ==
    (FallbackCase /\ (OrZero(LongTermDebtResolved).n > 0
                      \/ OrZero(ShortTermDebtResolved).n > 0)) =>
        total_debt = RAdd(OrZero(LongTermDebtResolved), OrZero(ShortTermDebtResolved))

C24_ZeroComponentLost ==
    /\ FallbackCase
    /\ OrZero(LongTermDebtResolved).n = 0
    /\ OrZero(ShortTermDebtResolved).n = 0
    /\ total_debt = NaN

(* ------------------------------------------------------------------ *)
(* Profitability and efficiency: MetricsService._calculate_profitability,
   MetricsService._calculate_efficiency and the legacy
   metrics.calculate_profitability_metrics, metrics.calculate_efficiency_metrics *)

\* balance_sheet.iloc[:, 1] if balance_sheet.shape[1] > 1 else latest_balance
PrevCol(bs) == IF bs.ncols > 1 THEN 1 ELSE 0

\* metrics.get_metric on the period col of a statement
get_metric_in(t, col, metric_name, default) ==
    IF metric_name \notin index(t) THEN default
    ELSE IF notna(iloc(t, metric_name, col)) THEN iloc(t, metric_name, col)
    ELSE default

\* (latest + prev) / 2 if both are not null, else latest
AverageOrLatest(latest, prev) ==
    IF notna(latest) /\ notna(prev) THEN Mean(latest, prev) ELSE latest

calculate_profitability_metrics(is, bs) ==
    IF is.isNone \/ empty(is) \/ bs.isNone \/ empty(bs) THEN <<>>
    ELSE
    LET net_income == get_metric_in(is, 0, NET_INCOME, Num(0))
        total_revenue == get_metric_in(is, 0, TOTAL_REVENUE, NaN)
        gross_profit == get_metric_in(is, 0, "Gross Profit", NaN)
        el0 == get_metric_in(bs, 0, EQ1, NaN)
        total_equity_latest ==
            IF isna(el0) THEN get_metric_in(bs, 0, EQ2, NaN) ELSE el0
        total_assets_latest == get_metric_in(bs, 0, TOTAL_ASSETS, NaN)
        ep0 == get_metric_in(bs, PrevCol(bs), EQ1, NaN)
        total_equity_prev ==
            IF isna(ep0) THEN get_metric_in(bs, PrevCol(bs), EQ2, NaN) ELSE ep0
        total_assets_prev == get_metric_in(bs, PrevCol(bs), TOTAL_ASSETS, NaN)
        avg_equity == AverageOrLatest(total_equity_latest, total_equity_prev)
        avg_assets == AverageOrLatest(total_assets_latest, total_assets_prev)
    IN  DropNaN((ROE :> metrics_safe_division(net_income, avg_equity))
                @@ (ROA :> metrics_safe_division(net_income, avg_assets))
                @@ (GROSS_MARGIN :> metrics_safe_division(gross_profit, total_revenue))
                @@ (NET_MARGIN :> metrics_safe_division(net_income, total_revenue)))

\* Mutant: the inventory turnover is divided without the zero-denominator guard.
calculate_efficiency_metrics_Unguarded(is, bs) ==
    IF is.isNone \/ empty(is) \/ bs.isNone \/ empty(bs) THEN <<>>
    ELSE
    LET total_revenue == get_metric_in(is, 0, TOTAL_REVENUE, NaN)
        c0 == get_metric_in(is, 0, COST_OF_REVENUE, NaN)
        cogs == IF isna(c0) THEN get_metric_in(is, 0, "Cost of Goods Sold", NaN) ELSE c0
        total_assets_latest == get_metric_in(bs, 0, TOTAL_ASSETS, NaN)
        total_assets_prev == get_metric_in(bs, PrevCol(bs), TOTAL_ASSETS, NaN)
        avg_assets == AverageOrLatest(total_assets_latest, total_assets_prev)
        inventory_latest == get_metric_in(bs, 0, INVENTORY, Num(0))
        inventory_prev == get_metric_in(bs, PrevCol(bs), INVENTORY, Num(0))
        avg_inventory == Mean(inventory_latest, inventory_prev)
    IN  DropNaN((ASSET_TURNOVER :> metrics_safe_division(total_revenue, avg_assets))
                @@ (INVENTORY_TURNOVER :>
                        IF isna(cogs) THEN NaN
                        ELSE IF avg_inventory.n = 0 THEN Inf
                        ELSE RDivide(cogs, avg_inventory)))

calculate_efficiency_metrics(is, bs) ==
    IF is.isNone \/ empty(is) \/ bs.isNone \/ empty(bs) THEN <<>>
    ELSE
    LET total_revenue == get_metric_in(is, 0, TOTAL_REVENUE, NaN)
        c0 == get_metric_in(is, 0, COST_OF_REVENUE, NaN)
        cogs == IF isna(c0) THEN get_metric_in(is, 0, "Cost of Goods Sold", NaN) ELSE c0
        total_assets_latest == get_metric_in(bs, 0, TOTAL_ASSETS, NaN)
        total_assets_prev == get_metric_in(bs, PrevCol(bs), TOTAL_ASSETS, NaN)
        avg_assets == AverageOrLatest(total_assets_latest, total_assets_prev)
        inventory_latest == get_metric_in(bs, 0, INVENTORY, Num(0))
        inventory_prev == get_metric_in(bs, PrevCol(bs), INVENTORY, Num(0))
        avg_inventory == Mean(inventory_latest, inventory_prev)
    IN  DropNaN((ASSET_TURNOVER :> metrics_safe_division(total_revenue, avg_assets))
                @@ (INVENTORY_TURNOVER :> metrics_safe_division(cogs, avg_inventory)))

\* The statements the two calculators are run on: per line item the row absent
\* (<<>>) or its cells, latest period first.
Periods2(picks, n) ==
    Table(n, [l \in {x \in DOMAIN picks : picks[x] # <<>>} |-> picks[l]])

RatioIncomeStatements ==
    {NoTable} \cup
    {Periods2((NET_INCOME :> a) @@ (TOTAL_REVENUE :> b) @@ (COST_OF_REVENUE :> c), 1) :
        a \in {<<>>, <<NaN>>, <<Num(50)>>, <<Num(-50)>>, <<Num(0)>>},
        b \in {<<>>, <<Num(200)>>},
        c \in {<<>>, <<Num(500)>>, <<Num(0)>>}}

RatioBalanceSheets ==
    {NoTable} \cup
    {Periods2((EQ1 :> a) @@ (TOTAL_ASSETS :> b) @@ (INVENTORY :> c), 2) :
        a \in {<<>>, <<Num(100), Num(100)>>},
        b \in {<<>>, <<Num(400), Num(200)>>, <<Num(400), NaN>>},
        c \in {<<>>, <<NaN, NaN>>, <<Num(50), Num(30)>>, <<Num(50), NaN>>,
               <<NaN, Num(30)>>, <<Num(0), Num(0)>>}}

RatioInit ==
    /\ pc = "start"
    /\ impl = ""
    /\ balance_sheet \in RatioBalanceSheets
    /\ income_stmt \in RatioIncomeStatements
    /\ metrics = <<>>
    /\ total_debt = None
    /\ ebit = None
    /\ DivIdle
    /\ ResIdle
    /\ ScoreIdle
    /\ AnaIdle
    /\ TrendIdle
    /\ CliIdle
    /\ SvcIdle
    /\ CacheIdle

RatiosCalculated(which, by, result) ==
    /\ pc = "start"
    /\ pc' = which
    /\ impl' = by
    /\ metrics' = result
    /\ UNCHANGED <<balance_sheet, income_stmt, total_debt, ebit,
                   divVars, resVars, scoreVars, anaVars, trendVars, cliVars, svcVars, cacheVars>>

ServiceProfitability ==
    RatiosCalculated("profitability", "service",
                     _calculate_profitability(income_stmt, balance_sheet))

LegacyProfitability ==
    RatiosCalculated("profitability", "legacy",
                     calculate_profitability_metrics(income_stmt, balance_sheet))

ServiceEfficiency ==
    RatiosCalculated("efficiency", "service",
                     _calculate_efficiency(income_stmt, balance_sheet))

LegacyEfficiency ==
    RatiosCalculated("efficiency", "legacy",
                     calculate_efficiency_metrics(income_stmt, balance_sheet))

RatioNext ==
    \/ ServiceProfitability
    \/ LegacyProfitability
    \/ ServiceEfficiency
    \/ LegacyEfficiency

SpecRatio == RatioInit /\ [][RatioNext]_vars

\* No cell of the line item holds a number in the given periods
Unresolved(t, label, cols) ==
    \/ t.isNone
    \/ label \notin index(t)
    \/ \A c \in cols : c < t.ncols => NoData(iloc(t, label, c))

NetIncomeUnresolved == Unresolved(income_stmt, NET_INCOME, {0})

(* C25: no ratio computed from a missing input is silently replaced by zero:
   when Net Income cannot be resolved, ROE, ROA and Net Margin are "no data",
   never 0, in both profitability calculators. *)
C25_MissingNetIncomeNoRatio ==
    (pc = "profitability" /\ NetIncomeUnresolved) =>
        /\ NoData(Get(metrics, ROE))
        /\ NoData(Get(metrics, ROA))
        /\ NoData(Get(metrics, NET_MARGIN))

\* The same for the service's calculator alone.
C25_ServiceOnly ==
    (pc = "profitability" /\ impl = "service" /\ NetIncomeUnresolved) =>
        /\ NoData(Get(metrics, ROE))
        /\ NoData(Get(metrics, ROA))
        /\ NoData(Get(metrics, NET_MARGIN))

C25_ZeroFromMissing ==
    /\ pc = "profitability"
    /\ impl = "legacy"
    /\ NetIncomeUnresolved
    /\ Get(metrics, ROE) = Num(0)
    /\ Get(metrics, NET_MARGIN) = Num(0)

\* The latest-period cell of the line item, averaged with the prior period
\* when both hold a number
AverageCell(t, label) ==
    IF Unresolved(t, label, {0}) THEN None
    ELSE IF Unresolved(t, label, {1}) \/ t.ncols < 2 THEN iloc(t, label, 0)
    ELSE Mean(iloc(t, label, 0), iloc(t, label, 1))

InventoryUnresolved == Unresolved(balance_sheet, INVENTORY, {0, 1})

(* C28: in both efficiency calculators, when no Inventory row resolves in
   either of the two latest periods, Inventory Turnover is "no data" for every
   cost of goods sold, never 0 nor infinite, while Asset Turnover is still
   computed from the revenue and the average total assets. *)
C28_NoInventoryNoTurnover ==
    (pc = "efficiency" /\ InventoryUnresolved) =>
        /\ NoData(Get(metrics, INVENTORY_TURNOVER))
        /\ (/\ ~Unresolved(income_stmt, TOTAL_REVENUE, {0})
            /\ ~Unresolved(balance_sheet, TOTAL_ASSETS, {0})) =>
               Get(metrics, ASSET_TURNOVER) =
                   RDivide(iloc(income_stmt, TOTAL_REVENUE, 0),
                           AverageCell(balance_sheet, TOTAL_ASSETS))

C28_Witness ==
    /\ pc = "efficiency"
    /\ impl = "legacy"
    /\ InventoryUnresolved
    /\ ~Unresolved(income_stmt, COST_OF_REVENUE, {0})
    /\ iloc(income_stmt, COST_OF_REVENUE, 0) = Num(500)
    /\ IsNum(Get(metrics, ASSET_TURNOVER))
    /\ NoData(Get(metrics, INVENTORY_TURNOVER))

C28_WitnessService ==
    /\ pc = "efficiency"
    /\ impl = "service"
    /\ InventoryUnresolved
    /\ ~Unresolved(income_stmt, COST_OF_REVENUE, {0})
    /\ iloc(income_stmt, COST_OF_REVENUE, 0) = Num(500)
    /\ IsNum(Get(metrics, ASSET_TURNOVER))
    /\ NoData(Get(metrics, INVENTORY_TURNOVER))

(* ------------------------------------------------------------------ *)
(* Trend extraction on incomplete statements *)

\* The trends both extractors take from one row, with the statement and the
\* rows each is taken from
TrendRows ==
    {[name |-> "Revenue", t |-> income_stmt, labels |-> {TOTAL_REVENUE}],
     [name |-> "Net Income", t |-> income_stmt, labels |-> {NET_INCOME}],
     [name |-> "Total Equity", t |-> balance_sheet, labels |-> {EQ1, EQ2}],
     [name |-> "Operating Cash Flow", t |-> cash_flow, labels |-> {OPERATING_CASH_FLOW}],
     [name |-> "Free Cash Flow", t |-> cash_flow, labels |-> {FREE_CASH_FLOW}]}

RowExists(r) == Filled(r.t) /\ r.labels \cap index(r.t) # {}

SomethingMissing == \E r \in TrendRows : ~RowExists(r)

(* C26: in both trend extractors an absent or empty statement, or a line item
   with no matching label, only leaves that trend out: the extraction does not
   fail and every trend whose row exists is returned. *)
C26_MissingRowOnlyLeavesTrendOut ==
    (pc = "done" /\ impl \in {"service", "legacy"} /\ SomethingMissing) =>
        /\ ~historical_trends.raised
        /\ \A r \in TrendRows :
               RowExists(r) <=> r.name \in DOMAIN historical_trends.series

\* The same for the service's extractor alone.
C26_ServiceOnly ==
    (pc = "done" /\ impl = "service" /\ SomethingMissing) =>
        /\ ~historical_trends.raised
        /\ \A r \in TrendRows :
               RowExists(r) <=> r.name \in DOMAIN historical_trends.series

C26_LegacyKeyError ==
    /\ pc = "done"
    /\ impl = "legacy"
    /\ Filled(income_stmt)
    /\ TOTAL_REVENUE \in index(income_stmt)
    /\ NET_INCOME \notin index(income_stmt)
    /\ historical_trends.raised

(* ------------------------------------------------------------------ *)
(* The field resolver and negative numbers *)

\* The cell that decides the lookup: that of the first readable synonym
DecidingCell ==
    float(iloc(df, row_labels.items[Min(ReadableAt(df, row_labels.items, col_index))],
               col_index))

NegativeDecides ==
    /\ IsGet
    /\ Usable(df, col_index)
    /\ ReadableAt(df, row_labels.items, col_index) # {}
    /\ IsNum(DecidingCell)
    /\ DecidingCell.n < 0

(* C27: with allow_negative false the field resolver never returns a negative
   number: it gives "no data" instead; with allow_negative true the negative
   number is returned unchanged. *)
C27_NegativeOnlyWhenAllowed ==
    /\ (IsGet /\ ~allow_negative) => ~(IsNum(value) /\ value.n < 0)
    /\ (NegativeDecides /\ ~allow_negative) => NoData(value)
    /\ (NegativeDecides /\ allow_negative) => value = DecidingCell

C27_Witness ==
    /\ NegativeDecides
    /\ impl = "service.get"
    /\ ~allow_negative
    /\ DecidingCell = Num(-1000)
    /\ NoData(value)

C27_WitnessAllowed ==
    /\ NegativeDecides
    /\ impl = "helpers.get"
    /\ allow_negative
    /\ value = Num(-1000)

(* ------------------------------------------------------------------ *)
(* The Debt/Equity rule of the scoring step *)

DebtEquityRead == Read(DEBT_EQUITY)

AtOrBelowGreen ==
    /\ ScoringRan
    /\ DOMAIN metrics_dict # {}
    /\ HasData(DebtEquityRead)
    /\ FLe(DebtEquityRead, Rules[DEBT_EQUITY].thresholds.green)

(* C30: Debt/Equity is rated on its signed value with no special case for
   negative equity: every Debt/Equity at or below the Green threshold, every
   negative value included, is rated Green and earns the full 2 points, in
   both scoring implementations. *)
C30_LowDebtEquityIsGreen ==
    AtOrBelowGreen =>
        (Entry(DEBT_EQUITY, "Green") /\ Credit(DEBT_EQUITY, 2, 2))

\* The same for negative values alone.
C30_NegativeIsGreen ==
    (AtOrBelowGreen /\ DebtEquityRead.n < 0) =>
        (Entry(DEBT_EQUITY, "Green") /\ Credit(DEBT_EQUITY, 2, 2))

\* The same below the threshold, the threshold itself left out.
C30_BelowIsGreen ==
    (AtOrBelowGreen /\ DebtEquityRead # Rules[DEBT_EQUITY].thresholds.green) =>
        (Entry(DEBT_EQUITY, "Green") /\ Credit(DEBT_EQUITY, 2, 2))

C30_NegativeRated ==
    /\ AtOrBelowGreen
    /\ DebtEquityRead = Num(-1)
    /\ Entry(DEBT_EQUITY, "Green")
    /\ Credit(DEBT_EQUITY, 2, 2)

C30_ThresholdIsYellow ==
    /\ AtOrBelowGreen
    /\ impl = "legacy"
    /\ DebtEquityRead = Rat(5, 10)
    /\ Entry(DEBT_EQUITY, "Yellow")
    /\ Credit(DEBT_EQUITY, 1, 2)

(* ------------------------------------------------------------------ *)
(* The cached ticker lookup: services/data_provider_service.py
   _get_cached_ticker behind DataProviderService.fetch_all_data, and
   data_fetcher.get_stock_data behind StockAnalyzer *)

\* @lru_cache(maxsize=32) and @lru_cache(maxsize=10)
ServiceMaxsize == 32
LegacyMaxsize == 10

\* The tickers requested in a session: the first is the one that is watched
MaxTickers == 34

\* The symbol of the n-th ticker, two upper-case letters
Symbol(n) ==
    <<UPPERCASE[((n - 1) \div Len(UPPERCASE)) + 1],
      UPPERCASE[((n - 1) % Len(UPPERCASE)) + 1]>>

Watched == Symbol(1)

\* 1-based position of the entry of key in a list of entries, 0 when it has none
PositionOf(entries, key) ==
    IF \E i \in 1..Len(entries) : entries[i].ticker = key
    THEN CHOOSE i \in 1..Len(entries) : entries[i].ticker = key
    ELSE 0

\* the entries but the one of key, in order
Others(entries, key) ==
    [i \in 1..(Len(entries) - (IF PositionOf(entries, key) > 0 THEN 1 ELSE 0)) |->
        IF PositionOf(entries, key) = 0 \/ i < PositionOf(entries, key)
        THEN entries[i] ELSE entries[i + 1]]

CacheEntry(key, result) == [ticker |-> key, result |-> result]

\* Mutant: a lookup that failed is not stored.
lru_cache_FailuresNotStored(entries, maxsize, key, outcome) ==
    LET at == PositionOf(entries, key)
        stored == <<CacheEntry(key, outcome)>> \o entries
    IN  IF at > 0
        THEN [cache |-> <<entries[at]>> \o Others(entries, key),
              result |-> entries[at].result, hit |-> TRUE]
        ELSE [cache |-> IF outcome = "none" THEN entries
                        ELSE SubSeq(stored, 1, IF Len(stored) > maxsize
                                               THEN maxsize ELSE Len(stored)),
              result |-> outcome, hit |-> FALSE]

\* functools.lru_cache around a function of one argument, most recently used
\* entry first: a hit returns the stored result, a miss calls the function
\* (outcome is what it returns), stores the result, None included, and drops
\* the least recently used entry beyond maxsize
lru_cache(entries, maxsize, key, outcome) ==
    LET at == PositionOf(entries, key)
        stored == <<CacheEntry(key, outcome)>> \o entries
    IN  IF at > 0
        THEN [cache |-> <<entries[at]>> \o Others(entries, key),
              result |-> entries[at].result, hit |-> TRUE]
        ELSE [cache |-> SubSeq(stored, 1, IF Len(stored) > maxsize
                                          THEN maxsize ELSE Len(stored)),
              result |-> outcome, hit |-> FALSE]

\* The tickers asked for next: the watched one, the one asked for last, or
\* one never asked for before; each typed in upper or in lower case
NextFresh == Len(Others(recent, Watched)) + 2

Askable ==
    {Watched}
    \cup (IF recent = <<>> THEN {} ELSE {recent[1].ticker})
    \cup (IF NextFresh <= MaxTickers THEN {Symbol(NextFresh)} ELSE {})

Typed == Askable \cup {lower(t) : t \in Askable}

\* What the provider answers when it is contacted: the watched ticker may fail
\* (exception or validation) or validate at every contact, every fifth of the
\* other tickers is an invalid symbol
Answers(key) ==
    IF key = Watched THEN {"ticker", "none"}
    ELSE IF \E n \in 1..MaxTickers : n % 5 = 0 /\ key = Symbol(n) THEN {"none"}
    ELSE {"ticker"}

CacheInit ==
    /\ pc = "start"
    /\ impl \in {"service", "legacy"}
    /\ cache = <<>>
    /\ recent = <<>>
    /\ lookup = NoLookup
    /\ DivIdle
    /\ ResIdle
    /\ ScoreIdle
    /\ SolvIdle
    /\ AnaIdle
    /\ TrendIdle
    /\ CliIdle
    /\ SvcIdle

\* One lookup through the cache, with the session's record of it: recent holds
\* the tickers asked for so far, latest first, each with its latest result
Looked(key, maxsize, outcome) ==
    LET r == lru_cache(cache, maxsize, key, outcome)
        before == PositionOf(recent, key)
    IN  /\ pc' = "fetched"
        /\ cache' = r.cache
        /\ recent' = <<CacheEntry(key, r.result)>> \o Others(recent, key)
        /\ lookup' = [ticker |-> key, rank |-> before, cached |-> r.hit,
                      contacted |-> ~r.hit, result |-> r.result,
                      previous |-> IF before > 0 THEN recent[before].result ELSE ""]
        /\ UNCHANGED <<impl, divVars, resVars, scoreVars, solvVars, anaVars, trendVars,
                       cliVars, svcVars>>

\* fetch_all_data up to line 79: ticker.upper(), then _get_cached_ticker
FetchAllData ==
    /\ impl = "service"
    /\ \E t \in Typed :
          \E outcome \in Answers(upper(t)) :
              Looked(upper(t), ServiceMaxsize, outcome)

\* StockAnalyzer.__init__: ticker.upper(), then data_fetcher.get_stock_data
GetStockData ==
    /\ impl = "legacy"
    /\ \E t \in Typed :
          \E outcome \in Answers(upper(t)) :
              Looked(upper(t), LegacyMaxsize, outcome)

CacheNext == FetchAllData \/ GetStockData

SpecCache == CacheInit /\ [][CacheNext]_vars

\* The ticker was asked for before and is among the n tickers asked for latest
AmongLatest(n) == lookup.rank >= 1 /\ lookup.rank <= n

NoDuplicates(entries) ==
    \A i, j \in 1..Len(entries) : entries[i].ticker = entries[j].ticker => i = j

(* C29: the result of fetch_all_data's ticker lookup is cached per ticker,
   failures included: once the lookup of a ticker has failed, every later
   fetch_all_data for it returns None without contacting the provider again
   for as long as the ticker stays among the 32 tickers requested latest; the
   provider is contacted at most once per cached ticker, and the cache never
   holds more than 32 entries. *)
C29_FailureCachedWhileRecent ==
    (pc = "fetched" /\ impl = "service") =>
        /\ (AmongLatest(32) /\ lookup.previous = "none") =>
               (lookup.result = "none" /\ ~lookup.contacted)
        /\ lookup.contacted <=> ~lookup.cached
        /\ AmongLatest(32) => lookup.cached
        /\ NoDuplicates(cache)
        /\ Len(cache) <= 32

\* The watched ticker failed, 31 other tickers were asked for, and it is asked
\* for again: the last moment at which the failure is still cached
C29_Witness ==
    /\ pc = "fetched"
    /\ impl = "service"
    /\ lookup.ticker = Watched
    /\ lookup.rank = 32
    /\ lookup.previous = "none"
    /\ lookup.result = "none"
    /\ ~lookup.contacted
    /\ Len(cache) = 32

\* One ticker later the entry is gone and the provider is contacted again.
C29_Evicted ==
    /\ pc = "fetched"
    /\ impl = "service"
    /\ lookup.ticker = Watched
    /\ lookup.rank = 33
    /\ lookup.previous = "none"
    /\ lookup.contacted
    /\ lookup.result = "ticker"

\* get_stock_data keeps the 10 tickers asked for latest
C29_LegacyKeepsTen ==
    (pc = "fetched" /\ impl = "legacy") =>
        /\ (AmongLatest(10) /\ lookup.previous = "none") =>
               (lookup.result = "none" /\ ~lookup.contacted)
        /\ lookup.contacted <=> ~lookup.cached
        /\ Len(cache) <= 10

====
